---- MODULE Spec2Model ----
(***************************************************************************)
(* Asynchronous payment gateway: the create-payment and create-refund      *)
(* handlers, the payment, refund and webhook workers, and the ledger,      *)
(* idempotency store, job queues and webhook log they share.               *)
(*                                                                         *)
(* Every `await` of a handler is a point where other handlers and workers  *)
(* may run, so each handler is a small process whose program counter moves *)
(* from one database or queue call to the next.  A database or queue call  *)
(* may reject (the handlers' catch blocks); such failures are counted in   *)
(* `faults`.                                                               *)
(***************************************************************************)
EXTENDS Integers, Sequences, FiniteSets, TLC

\* ------------------------------------------------------------------ bounds
MaxPayReq == 2        \* create-payment requests per behaviour
MaxFaults == 1        \* rejected database / queue calls per behaviour
MaxRefReq == 2        \* create-refund requests per behaviour
MaxRedeliver == 1     \* second deliveries of a job per behaviour
MaxTime == 1          \* clock ticks per behaviour
MaxScriptRuns == 1    \* runs of the re-enqueue script per behaviour
RefundPayAmount == 3  \* amount of the payments that exist when refunds start
MaxRetryReq == 1      \* manual webhook retry requests per behaviour

\* ------------------------------------------------------------- input sets
Merchants == {"m1", "m2"}
NoKey == "none"
PayKeys == {NoKey, "k1"}
PayAmounts == {1, 2}
OrderIds == {"ord_1"}
Methods == {"upi"}
RefundAmounts == {1, 2}
RefundKeys == {"rk1"}
Null == -1            \* SQL NULL in a timestamp column
NullText == "NULL"    \* SQL NULL in a text column

VARIABLES
    now,               \* NOW() of the database, in ticks
    faults,            \* rejected database / queue calls so far
    payments,          \* table payments: sequence of rows, id = index
    idempotency_keys,  \* table idempotency_keys: set of rows
    paymentQueue,      \* payment-queue: sequence of waiting jobs
    paymentJobsAdded,  \* history: every job ever added to payment-queue
    preq,              \* create-payment requests: slot -> request state
    refunds,           \* table refunds: sequence of rows, id = index
    refundQueue,       \* refund-queue: sequence of waiting jobs
    refundJobsAdded,   \* history: every job ever added to refund-queue
    redelivered,       \* jobs the queues have delivered a second time
    rreq,              \* create-refund requests: slot -> request state
    rworker,           \* the refund worker's job in progress
    webhookQueue,      \* webhook-queue: sequence of waiting jobs
    webhookJobsAdded,  \* history: every job ever added to webhook-queue
    pworker,           \* the payment workers' jobs in progress
    scriptRuns,        \* runs of the re-enqueue script so far
    merchants,         \* table merchants: id -> webhook_url, webhook_secret
    endpoint,          \* how each merchant's webhook endpoint answers
    testIntervals,     \* WEBHOOK_RETRY_INTERVALS_TEST === 'true'
    webhook_logs,      \* table webhook_logs: sequence of rows, id = index
    wworker,           \* the webhook worker's job in progress
    posts,             \* history: every webhook POST sent
    webhookFailed,     \* webhook-queue: the jobs whose handler threw
    wretry             \* the manual webhook retry request in progress

payApiVars == <<idempotency_keys, paymentQueue, paymentJobsAdded, preq>>
refundApiVars == <<refunds, refundJobsAdded, rreq>>
refundWorkerVars == <<rworker, redelivered>>
webhookVars == <<webhookQueue, webhookJobsAdded>>
settleVars == <<pworker, scriptRuns>>
deliveryVars == <<merchants, endpoint, testIntervals, webhook_logs, wworker, posts,
                  webhookFailed, wretry>>

vars == <<now, faults, payments, payApiVars, refundApiVars, refundQueue,
          refundWorkerVars, webhookVars, settleVars, deliveryVars>>

\* ------------------------------------------------------------ JSON values
\* A JSON object is a sequence of <<key, value>> pairs in serialisation order.
KeyBefore(a, b) ==
    LET order == <<"id", "data", "event", "amount", "status", "payment",
                   "order_id", "timestamp">>
        pos(k) == CHOOSE i \in 1..Len(order) : order[i] = k
    IN pos(a) < pos(b)

RECURSIVE InsertKey(_, _)
InsertKey(pair, obj) ==
    IF obj = <<>> THEN <<pair>>
    ELSE IF KeyBefore(pair[1], Head(obj)[1]) THEN <<pair>> \o obj
    ELSE <<Head(obj)>> \o InsertKey(pair, Tail(obj))

RECURSIVE Jsonb(_)
\* A JSONB column stores an object with its keys ordered by length, then
\* bytewise; reading it back yields the keys in that order.
Jsonb(obj) == IF obj = <<>> THEN <<>> ELSE InsertKey(Head(obj), Jsonb(Tail(obj)))

Fields(obj) == {obj[i] : i \in 1..Len(obj)}

\* JSON.stringify(obj): the text of an object, its keys in insertion order.
JsonStringify(obj) == [kind |-> "text", value |-> obj]

\* A JSON text written to a JSONB column and read back: the driver hands the
\* stored value over as an object, not as text.
JsonbRead(text) == [kind |-> "object", value |-> Jsonb(text.value)]

\* JSON.parse(v) of a value that is not JSON text throws a SyntaxError: an
\* object is first turned into the string "[object Object]".
JsonParseThrows(v) == v.kind # "text"

\* --------------------------------------------------------------- requests
IdleReq == [pc |-> "idle"]

PaymentWorkers == {"basic", "enhanced"}

\* No payment job is in progress and the re-enqueue script has not run.
SettlementIdle ==
    /\ pworker = [w \in PaymentWorkers |-> IdleReq]
    /\ scriptRuns = 0

\* No merchant has a webhook endpoint configured and nothing was delivered.
DeliveryIdle ==
    /\ merchants = [m \in Merchants |->
                        [webhook_url |-> NullText, webhook_secret |-> NullText]]
    /\ endpoint = [m \in Merchants |-> "down"]
    /\ testIntervals = FALSE
    /\ webhook_logs = <<>>
    /\ wworker = IdleReq
    /\ posts = <<>>
    /\ webhookFailed = <<>>
    /\ wretry = [pc |-> "idle", runs |-> 0]

PayReqSlots == 1..MaxPayReq

InFlight(r) == r.pc \notin {"idle", "done"}

FaultPossible == faults < MaxFaults

\* responseData of the handler
ResponseData(id, order_id, amount) ==
    <<  <<"id", id>>, <<"order_id", order_id>>, <<"amount", amount>>,
        <<"status", "pending">> >>

\* err.message of a rejected database or queue call
InternalErrorText == "connect ECONNREFUSED"

\* { error: 'Internal server error', details: err.message }
ErrorBody ==
    << <<"error", "Internal server error">>, <<"details", InternalErrorText>> >>

\* NOW() + INTERVAL '24 hours', the clock counting days
IdemTtl == 1

\* Mutant: the idempotency lookup never finds a stored row.
IdemCached_NeverHit(key, merchant) == {}

\* Mutant: the idempotency lookup ignores the merchant.
IdemCached_AnyMerchant(key, merchant) ==
    {row \in idempotency_keys : row.key = key}

\* SELECT response_body FROM idempotency_keys WHERE key = $1 AND merchant_id = $2
IdemCached(key, merchant) ==
    {row \in idempotency_keys : row.key = key /\ row.merchant_id = merchant}

\* The request arrives: headers and body are fixed, nothing is read yet.
PayRequest(s, merchant, key, order_id, amount, method) ==
    /\ preq[s].pc = "idle"
    /\ \A t \in PayReqSlots : t < s => preq[t].pc # "idle"
    /\ preq' = [preq EXCEPT ![s] =
            [pc |-> "lookup", merchant |-> merchant, key |-> key,
             order_id |-> order_id, amount |-> amount, method |-> method,
             overlap |-> \E t \in PayReqSlots :
                            /\ InFlight(preq[t])
                            /\ preq[t].merchant = merchant
                            /\ preq[t].key = key,
             faulted |-> FALSE, paymentId |-> 0, status |-> 0, body |-> <<>>]]
    /\ UNCHANGED <<now, faults, payments, idempotency_keys, paymentQueue,
                   paymentJobsAdded,
                   refundApiVars, refundQueue, refundWorkerVars, webhookVars,
                   settleVars, deliveryVars>>

\* The catch block of the handler: 500.
PayFail(s) ==
    /\ InFlight(preq[s])
    /\ FaultPossible
    /\ faults' = faults + 1
    /\ preq' = [preq EXCEPT ![s].pc = "done", ![s].status = 500,
                            ![s].body = ErrorBody, ![s].faulted = TRUE]
    /\ UNCHANGED <<now, payments, idempotency_keys, paymentQueue,
                   paymentJobsAdded,
                   refundApiVars, refundQueue, refundWorkerVars, webhookVars,
                   settleVars, deliveryVars>>

\* A. Idempotency check
PayLookup(s) ==
    /\ preq[s].pc = "lookup"
    /\ LET r == preq[s]
           cached == IF r.key = NoKey THEN {} ELSE IdemCached(r.key, r.merchant)
       IN IF cached # {}
          THEN preq' = [preq EXCEPT ![s].pc = "done", ![s].status = 200,
                           ![s].body = (CHOOSE row \in cached : TRUE).response_body]
          ELSE preq' = [preq EXCEPT ![s].pc = "insert"]
    /\ UNCHANGED <<now, faults, payments, idempotency_keys, paymentQueue,
                   paymentJobsAdded,
                   refundApiVars, refundQueue, refundWorkerVars, webhookVars,
                   settleVars, deliveryVars>>

\* C. Create Payment Record
PayInsert(s) ==
    /\ preq[s].pc = "insert"
    /\ LET r == preq[s]
           id == Len(payments) + 1
       IN /\ payments' = Append(payments,
                [id |-> id, order_id |-> r.order_id, merchant_id |-> r.merchant,
                 amount |-> r.amount, status |-> "pending", method |-> r.method,
                 updated_at |-> now])
          /\ preq' = [preq EXCEPT ![s].pc = "saveKey", ![s].paymentId = id,
                          ![s].body = ResponseData(id, r.order_id, r.amount)]
    /\ UNCHANGED <<now, faults, idempotency_keys, paymentQueue, paymentJobsAdded,
                   refundApiVars, refundQueue, refundWorkerVars, webhookVars,
                   settleVars, deliveryVars>>

\* D. Save Idempotency Key; PRIMARY KEY (key, merchant_id) rejects a second row
PaySaveKey(s) ==
    /\ preq[s].pc = "saveKey"
    /\ LET r == preq[s]
       IN IF r.key = NoKey
          THEN /\ preq' = [preq EXCEPT ![s].pc = "enqueue"]
               /\ UNCHANGED idempotency_keys
          ELSE IF IdemCached(r.key, r.merchant) # {}
          THEN /\ preq' = [preq EXCEPT ![s].pc = "done", ![s].status = 500,
                               ![s].body = ErrorBody]
               /\ UNCHANGED idempotency_keys
          ELSE /\ idempotency_keys' = idempotency_keys \cup
                    {[key |-> r.key, merchant_id |-> r.merchant,
                      response_body |-> Jsonb(r.body),
                      created_at |-> now, expires_at |-> now + IdemTtl]}
               /\ preq' = [preq EXCEPT ![s].pc = "enqueue"]
    /\ UNCHANGED <<now, faults, payments, paymentQueue, paymentJobsAdded,
                   refundApiVars, refundQueue, refundWorkerVars, webhookVars,
                   settleVars, deliveryVars>>

\* E. Enqueue for Async Processing, then 201
PayEnqueue(s) ==
    /\ preq[s].pc = "enqueue"
    /\ LET job == [paymentId |-> preq[s].paymentId]
       IN /\ paymentQueue' = Append(paymentQueue, job)
          /\ paymentJobsAdded' = Append(paymentJobsAdded, job)
    /\ preq' = [preq EXCEPT ![s].pc = "done", ![s].status = 201]
    /\ UNCHANGED <<now, faults, payments, idempotency_keys,
                   refundApiVars, refundQueue, refundWorkerVars, webhookVars,
                   settleVars, deliveryVars>>

InitPayment ==
    /\ now = 0
    /\ faults = 0
    /\ payments = <<>>
    /\ idempotency_keys = {}
    /\ paymentQueue = <<>>
    /\ paymentJobsAdded = <<>>
    /\ preq = [s \in PayReqSlots |-> IdleReq]
    /\ refunds = <<>>
    /\ refundQueue = <<>>
    /\ refundJobsAdded = <<>>
    /\ redelivered = 0
    /\ rreq = <<>>
    /\ rworker = IdleReq
    /\ webhookQueue = <<>>
    /\ webhookJobsAdded = <<>>
    /\ SettlementIdle
    /\ DeliveryIdle

NextPayment ==
    \/ \E s \in PayReqSlots, m \in Merchants, k \in PayKeys, o \in OrderIds,
          a \in PayAmounts, md \in Methods : PayRequest(s, m, k, o, a, md)
    \/ \E s \in PayReqSlots : PayLookup(s)
    \/ \E s \in PayReqSlots : PayInsert(s)
    \/ \E s \in PayReqSlots : PaySaveKey(s)
    \/ \E s \in PayReqSlots : PayEnqueue(s)
    \/ \E s \in PayReqSlots : PayFail(s)

SpecPayment == InitPayment /\ [][NextPayment]_vars

\* ------------------------------------------------- create-payment claims
\* Requests of merchant m with Idempotency-Key k that have arrived.
PayReqsOf(m, k) ==
    {s \in PayReqSlots : preq[s].pc # "idle" /\ preq[s].merchant = m /\ preq[s].key = k}

\* They were sent one after another, each was answered, and no database or
\* queue call of theirs was rejected.
PaySequentialRun(m, k) ==
    /\ PayReqsOf(m, k) # {}
    /\ \A s \in PayReqsOf(m, k) :
          preq[s].pc = "done" /\ ~preq[s].overlap /\ ~preq[s].faulted

PayRowsOf(S) == {preq[s].paymentId : s \in S} \ {0}

PayJobsFor(ids) ==
    Cardinality({i \in 1..Len(paymentJobsAdded) : paymentJobsAdded[i].paymentId \in ids})

\* C3: N create-payment requests sent one after another by one tenant with
\* one Idempotency-Key create exactly one Payment row and enqueue exactly one
\* payment-processing job; requests 2..N create no row and no job.
C3_SequentialIdempotentCreate ==
    \A m \in Merchants, k \in PayKeys \ {NoKey} :
        PaySequentialRun(m, k) =>
            LET S == PayReqsOf(m, k)
                first == CHOOSE s \in S : \A t \in S : s <= t
            IN /\ Cardinality(PayRowsOf(S)) = 1
               /\ PayRowsOf(S) = {preq[first].paymentId}
               /\ PayJobsFor(PayRowsOf(S)) = 1
               /\ Cardinality({i \in 1..Len(payments) :
                      payments[i].merchant_id = m /\ i \in PayRowsOf(S)}) = 1
               /\ \A s \in S \ {first} : preq[s].paymentId = 0 /\ preq[s].status = 200

\* Two requests with the same key were answered one after another.
C3_Witness ==
    \E m \in Merchants, k \in PayKeys \ {NoKey} :
        /\ PaySequentialRun(m, k)
        /\ Cardinality(PayReqsOf(m, k)) >= 2
        /\ Len(payments) >= 1

\* C4: a create-payment request that replays a recorded Idempotency-Key is
\* answered with the response of the original request: the same body and the
\* same HTTP status code.
C4_ReplayIdenticalResponse ==
    \A s, t \in PayReqSlots :
        ( /\ preq[s].pc = "done" /\ preq[t].pc = "done"
          /\ preq[s].key # NoKey
          /\ preq[s].key = preq[t].key /\ preq[s].merchant = preq[t].merchant
          /\ preq[s].status = 201
          /\ preq[t].paymentId = 0 /\ ~preq[t].faulted )
        => /\ preq[t].status = preq[s].status
           /\ Fields(preq[t].body) = Fields(preq[s].body)

\* C5: of concurrent create-payment requests with one key of one tenant only
\* one creates a Payment row and a job; the others create nothing and are
\* answered with the winner's stored response, never with an error.
C5_ConcurrentSingleWinner ==
    \A m \in Merchants, k \in PayKeys \ {NoKey} :
        (\A s \in PayReqsOf(m, k) : ~preq[s].faulted) =>
            /\ Cardinality(PayRowsOf(PayReqsOf(m, k))) <= 1
            /\ PayJobsFor(PayRowsOf(PayReqsOf(m, k))) <= 1
            /\ \A s \in PayReqsOf(m, k) : preq[s].pc = "done" => preq[s].status # 500

\* =================================================================== refunds
RefReqSlots == 1..MaxRefReq

\* Mutant: the payment lookup finds a row for every id.
getPaymentById_AnyRow(paymentId) == <<payments[1]>>

\* SELECT * FROM payments WHERE id = $1
getPaymentById(paymentId) ==
    IF paymentId \in 1..Len(payments) THEN <<payments[paymentId]>> ELSE <<>>

RECURSIVE SumAmounts(_, _)
SumAmounts(rows, i) ==
    IF i = 0 THEN 0 ELSE rows[i].amount + SumAmounts(rows, i - 1)

\* The rows the SUM ranges over: WHERE payment_id = $1 AND status IN
\* ('processed', 'pending')
CountedRefunds(paymentId) ==
    SelectSeq(refunds, LAMBDA row :
        row.payment_id = paymentId /\ row.status \in {"processed", "pending"})

\* SELECT SUM(amount) ... ; parseInt(total || 0)
getTotalRefundedAmount(paymentId) ==
    SumAmounts(CountedRefunds(paymentId), Len(CountedRefunds(paymentId)))

\* SELECT id, payment_id, amount, status, created_at FROM refunds
\* WHERE idempotency_key = $1 LIMIT 1
RefundView(row) ==
    [id |-> row.id, payment_id |-> row.payment_id, amount |-> row.amount,
     status |-> row.status, created_at |-> row.created_at]

\* Mutant: the lookup by idempotency key never finds a row.
findRefundByIdempotencyKey_NeverHit(key) == <<>>

findRefundByIdempotencyKey(key) ==
    LET hits == SelectSeq(refunds, LAMBDA row : row.idempotency_key = key)
    IN IF hits = <<>> THEN <<>> ELSE <<RefundView(hits[1])>>

\* Mutant: the limit check rejects a refund that exhausts the remainder.
ExceedsLimit_Inclusive(requestedAmount, totalRefunded, paymentAmount) ==
    requestedAmount + totalRefunded >= paymentAmount

\* requestedAmount + totalRefunded > payment.amount
ExceedsLimit(requestedAmount, totalRefunded, paymentAmount) ==
    requestedAmount + totalRefunded > paymentAmount

\* idempotency_key VARCHAR(255) UNIQUE: a second row with a non-null key is
\* rejected
UniqueKeyViolation(key) ==
    key # NoKey /\ \E i \in 1..Len(refunds) : refunds[i].idempotency_key = key

RefundError(s, status, code) ==
    [rreq EXCEPT ![s].pc = "done", ![s].status = status, ![s].code = code]

\* A call of processRefund (via = "service", answered through
\* RefundController.createRefund) or of the server's refund route (via = "route").
\* caller is the merchant the request is authenticated as (req.merchantId);
\* neither the service nor the route reads it.
RefundRequestBy(caller, s, via, paymentId, amount, key) ==
    /\ rreq[s].pc = "idle"
    /\ \A t \in RefReqSlots : t < s => rreq[t].pc # "idle"
    /\ rreq' = [rreq EXCEPT ![s] =
            [pc |-> IF via = "service" THEN "findKey" ELSE "getPayment",
             via |-> via, paymentId |-> paymentId, amount |-> amount, key |-> key,
             caller |-> caller,
             concurrent |-> \E t \in RefReqSlots : InFlight(rreq[t]),
             overlap |-> \E t \in RefReqSlots :
                            InFlight(rreq[t]) /\ key # NoKey /\ rreq[t].key = key,
             faulted |-> FALSE, totalRefunded |-> 0,
             payAmount |-> 0, merchant |-> "", refundId |-> 0,
             returned |-> <<>>, status |-> 0, code |-> ""]]
    /\ UNCHANGED <<now, faults, payments, payApiVars, refunds, refundJobsAdded,
                   refundQueue, refundWorkerVars, webhookVars,
                   settleVars, deliveryVars>>

\* A request of merchant m1, the owner of the settled payment.
RefundRequest(s, via, paymentId, amount, key) ==
    RefundRequestBy("m1", s, via, paymentId, amount, key)

\* A database or queue call of the request rejects: the repository rethrows an
\* Error without statusCode, the controller answers 500; the route's catch
\* answers 500.
RefundFail(s) ==
    /\ InFlight(rreq[s])
    /\ FaultPossible
    /\ faults' = faults + 1
    /\ rreq' = [RefundError(s, 500, "INTERNAL_SERVER_ERROR") EXCEPT ![s].faulted = TRUE]
    /\ UNCHANGED <<now, payments, payApiVars, refunds, refundJobsAdded,
                   refundQueue, refundWorkerVars, webhookVars,
                   settleVars, deliveryVars>>

\* 1. Check for idempotency
RefundFindKey(s) ==
    /\ rreq[s].pc = "findKey"
    /\ LET existing == IF rreq[s].key = NoKey THEN <<>>
                       ELSE findRefundByIdempotencyKey(rreq[s].key)
       IN IF existing # <<>>
          THEN rreq' = [rreq EXCEPT ![s].pc = "done", ![s].status = 201,
                                    ![s].returned = existing]
          ELSE rreq' = [rreq EXCEPT ![s].pc = "getPayment"]
    /\ UNCHANGED <<now, faults, payments, payApiVars, refunds, refundJobsAdded,
                   refundQueue, refundWorkerVars, webhookVars,
                   settleVars, deliveryVars>>

\* 2. Fetch and validate the original payment
RefundGetPayment(s) ==
    /\ rreq[s].pc = "getPayment"
    /\ LET found == getPaymentById(rreq[s].paymentId)
           service == rreq[s].via = "service"
       IN IF found = <<>>
          THEN rreq' = IF service THEN RefundError(s, 404, "PAYMENT_NOT_FOUND")
                       ELSE RefundError(s, 400, "BAD_REQUEST_ERROR")
          ELSE IF found[1].status # "success"
          THEN rreq' = RefundError(s, 400, "BAD_REQUEST_ERROR")
          ELSE rreq' = [rreq EXCEPT ![s].pc = "getTotal",
                            ![s].payAmount = found[1].amount,
                            ![s].merchant = found[1].merchant_id]
    /\ UNCHANGED <<now, faults, payments, payApiVars, refunds, refundJobsAdded,
                   refundQueue, refundWorkerVars, webhookVars,
                   settleVars, deliveryVars>>

\* 3. Calculate total already refunded; 4. Validate refund amount
RefundGetTotal(s) ==
    /\ rreq[s].pc = "getTotal"
    /\ LET r == rreq[s]
           totalRefunded == getTotalRefundedAmount(r.paymentId)
       IN IF ExceedsLimit(r.amount, totalRefunded, r.payAmount)
          THEN rreq' = IF r.via = "service"
                       THEN [RefundError(s, 400, "REFUND_AMOUNT_EXCEEDS_LIMIT")
                                EXCEPT ![s].totalRefunded = totalRefunded]
                       ELSE RefundError(s, 400, "BAD_REQUEST_ERROR")
          ELSE IF r.via = "service" /\ r.amount <= 0
          THEN rreq' = [RefundError(s, 400, "INVALID_REFUND_AMOUNT")
                           EXCEPT ![s].totalRefunded = totalRefunded]
          ELSE rreq' = [rreq EXCEPT ![s].pc = "create",
                                    ![s].totalRefunded = totalRefunded]
    /\ UNCHANGED <<now, faults, payments, payApiVars, refunds, refundJobsAdded,
                   refundQueue, refundWorkerVars, webhookVars,
                   settleVars, deliveryVars>>

\* 5., 6. Generate the refund id and INSERT INTO refunds ... RETURNING
RefundCreate(s) ==
    /\ rreq[s].pc = "create"
    /\ LET r == rreq[s]
           id == Len(refunds) + 1
           row == [id |-> id, payment_id |-> r.paymentId, merchant_id |-> r.merchant,
                   amount |-> r.amount, status |-> "pending",
                   idempotency_key |-> IF r.via = "service" THEN r.key ELSE NoKey,
                   created_at |-> now, updated_at |-> now, processed_at |-> Null]
       IN IF r.via = "service" /\ UniqueKeyViolation(r.key)
          THEN /\ rreq' = RefundError(s, 500, "INTERNAL_SERVER_ERROR")
               /\ UNCHANGED refunds
          ELSE /\ refunds' = Append(refunds, row)
               /\ rreq' = [rreq EXCEPT ![s].pc = "enqueue", ![s].refundId = id,
                               ![s].returned = <<RefundView(row)>>]
    /\ UNCHANGED <<now, faults, payments, payApiVars, refundJobsAdded,
                   refundQueue, refundWorkerVars, webhookVars,
                   settleVars, deliveryVars>>

\* 7. Enqueue refund processing job, then answer 201
RefundEnqueue(s) ==
    /\ rreq[s].pc = "enqueue"
    /\ LET job == [refundId |-> rreq[s].refundId]
       IN /\ refundQueue' = Append(refundQueue, job)
          /\ refundJobsAdded' = Append(refundJobsAdded, job)
    /\ rreq' = [rreq EXCEPT ![s].pc = "done", ![s].status = 201]
    /\ UNCHANGED <<now, faults, payments, payApiVars, refunds,
                   refundWorkerVars, webhookVars,
                   settleVars, deliveryVars>>

\* The ledger when refunds are requested: a settled payment of merchant m1 and
\* a failed payment of merchant m2, both created by POST /api/v1/payments and
\* settled by the payment worker.
SettledPayments ==
    << [id |-> 1, order_id |-> "ord_1", merchant_id |-> "m1",
        amount |-> RefundPayAmount, status |-> "success", method |-> "upi",
        updated_at |-> 0],
       [id |-> 2, order_id |-> "ord_1", merchant_id |-> "m2",
        amount |-> RefundPayAmount, status |-> "failed", method |-> "upi",
        updated_at |-> 0] >>

InitRefund ==
    /\ now = 0
    /\ faults = 0
    /\ payments = SettledPayments
    /\ idempotency_keys = {}
    /\ paymentQueue = <<>>
    /\ paymentJobsAdded = <<>>
    /\ preq = <<>>
    /\ refunds = <<>>
    /\ refundQueue = <<>>
    /\ refundJobsAdded = <<>>
    /\ redelivered = 0
    /\ rreq = [s \in RefReqSlots |-> IdleReq]
    /\ rworker = IdleReq
    /\ webhookQueue = <<>>
    /\ webhookJobsAdded = <<>>
    /\ SettlementIdle
    /\ DeliveryIdle

RefundSteps ==
    \/ \E s \in RefReqSlots : RefundFindKey(s)
    \/ \E s \in RefReqSlots : RefundGetPayment(s)
    \/ \E s \in RefReqSlots : RefundGetTotal(s)
    \/ \E s \in RefReqSlots : RefundCreate(s)
    \/ \E s \in RefReqSlots : RefundEnqueue(s)
    \/ \E s \in RefReqSlots : RefundFail(s)

\* Refund requests on the settled payment, with and without idempotency key,
\* through the service and through the server's route.
NextRefund ==
    \/ \E s \in RefReqSlots, a \in RefundAmounts, k \in RefundKeys \cup {NoKey} :
          RefundRequest(s, "service", 1, a, k)
    \/ \E s \in RefReqSlots, a \in RefundAmounts :
          RefundRequest(s, "route", 1, a, NoKey)
    \/ RefundSteps

SpecRefund == InitRefund /\ [][NextRefund]_vars

\* --------------------------------------------------- create-refund claims
\* C1: for every payment with status success, in every reachable state the
\* amounts of its refunds with status pending or processed sum to at most the
\* payment's amount, whatever the interleaving of create-refund requests.
C1_RefundLimitInvariant ==
    \A p \in 1..Len(payments) :
        payments[p].status = "success" =>
            getTotalRefundedAmount(p) <= payments[p].amount

RefundAccepted(s) ==
    /\ rreq[s].status = 201
    /\ rreq[s].refundId # 0
    /\ refunds[rreq[s].refundId].status = "pending"

RefundLimitRejected(s) ==
    /\ rreq[s].status = 400
    /\ rreq[s].code = "REFUND_AMOUNT_EXCEEDS_LIMIT"
    /\ rreq[s].refundId = 0

\* C2: two processRefund requests submitted concurrently on one success
\* payment with nothing refunded yet, each amount fitting alone and their sum
\* exceeding the payment's amount: exactly one is answered 201 and creates a
\* pending refund, the other is answered 400 REFUND_AMOUNT_EXCEEDS_LIMIT and
\* creates none.
C2_ConcurrentExactlyOneSucceeds ==
    \A s, t \in RefReqSlots :
        ( /\ s < t
          /\ \A u \in RefReqSlots \ {s, t} : rreq[u].pc = "idle"
          /\ rreq[s].pc = "done" /\ rreq[t].pc = "done"
          /\ rreq[t].concurrent
          /\ ~rreq[s].faulted /\ ~rreq[t].faulted
          /\ rreq[s].via = "service" /\ rreq[t].via = "service"
          /\ rreq[s].key = NoKey \/ rreq[s].key # rreq[t].key
          /\ rreq[s].paymentId = rreq[t].paymentId
          /\ rreq[s].paymentId \in 1..Len(payments)
          /\ payments[rreq[s].paymentId].status = "success"
          /\ rreq[s].amount > 0 /\ rreq[t].amount > 0
          /\ rreq[s].amount <= payments[rreq[s].paymentId].amount
          /\ rreq[t].amount <= payments[rreq[s].paymentId].amount
          /\ rreq[s].amount + rreq[t].amount > payments[rreq[s].paymentId].amount )
        => \/ RefundAccepted(s) /\ RefundLimitRejected(t)
           \/ RefundAccepted(t) /\ RefundLimitRejected(s)

\* Calls of processRefund with idempotency key k that have been made.
RefReqsOf(k) ==
    {s \in RefReqSlots : rreq[s].pc # "idle" /\ rreq[s].via = "service"
                         /\ rreq[s].key = k}

RefRowsOf(S) == {rreq[s].refundId : s \in S} \ {0}

RefJobsFor(ids) ==
    Cardinality({i \in 1..Len(refundJobsAdded) : refundJobsAdded[i].refundId \in ids})

\* The calls with key k were made one after another, all returned, and none
\* of their database or queue calls was rejected.
RefSequentialRun(k) ==
    /\ RefReqsOf(k) # {}
    /\ \A s \in RefReqsOf(k) :
          rreq[s].pc = "done" /\ ~rreq[s].overlap /\ ~rreq[s].faulted

\* C6: N processRefund calls made one after another with one idempotency
\* key, the first of them accepted, create exactly one Refund row and enqueue
\* exactly one refund job, and all N return a refund with the same id; a call
\* that hits the key creates no row and enqueues nothing.
C6_SequentialIdempotentRefund ==
    \A k \in RefundKeys :
        RefSequentialRun(k) =>
            LET S == RefReqsOf(k)
                first == CHOOSE s \in S : \A t \in S : s <= t
            IN /\ Cardinality(RefRowsOf(S)) <= 1
               /\ RefJobsFor(RefRowsOf(S)) = Cardinality(RefRowsOf(S))
               /\ rreq[first].status = 201 =>
                     /\ RefRowsOf(S) = {rreq[first].refundId}
                     /\ Cardinality({i \in 1..Len(refunds) :
                            refunds[i].idempotency_key = k}) = 1
                     /\ \A s \in S :
                           /\ rreq[s].status = 201
                           /\ rreq[s].returned[1].id = rreq[first].refundId
                           /\ s # first => rreq[s].refundId = 0

\* Two calls with one key returned one after another, the first accepted.
C6_Witness ==
    \E k \in RefundKeys :
        /\ RefSequentialRun(k)
        /\ Cardinality(RefReqsOf(k)) >= 2
        /\ \E s \in RefReqsOf(k) : rreq[s].refundId # 0 /\ rreq[s].status = 201

\* C7: of concurrent processRefund calls with one idempotency key at most one
\* creates a Refund row and a refund job, and every call returns the refund
\* the winner created rather than an error.
C7_ConcurrentIdempotentRefund ==
    \A k \in RefundKeys :
        (\A s \in RefReqsOf(k) : ~rreq[s].faulted) =>
            /\ Cardinality(RefRowsOf(RefReqsOf(k))) <= 1
            /\ RefJobsFor(RefRowsOf(RefReqsOf(k))) <= 1
            /\ \A s, t \in RefReqsOf(k) :
                  (rreq[s].pc = "done" /\ rreq[t].pc = "done" /\ rreq[s].refundId # 0)
                  => /\ rreq[t].status = 201
                     /\ rreq[t].returned # <<>>
                     /\ rreq[t].returned[1].id = rreq[s].refundId

\* ============================================================ refund worker
\* The queue hands the worker its oldest waiting job (the 3-5 s delay follows).
RefundWorkerTake ==
    /\ rworker.pc = "idle"
    /\ refundQueue # <<>>
    /\ rworker' = [pc |-> "update", refundId |-> Head(refundQueue).refundId]
    /\ refundQueue' = Tail(refundQueue)
    /\ UNCHANGED <<now, faults, payments, payApiVars, refundApiVars,
                   redelivered, webhookVars,
                   settleVars, deliveryVars>>

\* The refund row after UPDATE refunds SET status = 'processed',
\* processed_at = NOW() WHERE id = $1
ProcessedRow(row) == [row EXCEPT !.status = "processed", !.processed_at = now]

\* Update status to 'processed'
RefundWorkerUpdate ==
    /\ rworker.pc = "update"
    /\ refunds' = [i \in 1..Len(refunds) |->
                      IF i = rworker.refundId THEN ProcessedRow(refunds[i])
                      ELSE refunds[i]]
    /\ rworker' = [rworker EXCEPT !.pc = "webhook"]
    /\ UNCHANGED <<now, faults, payments, payApiVars, refundJobsAdded, rreq,
                   refundQueue, redelivered, webhookVars,
                   settleVars, deliveryVars>>

\* job.data of a webhook job as a worker adds it: no attempt field and no
\* delay option (0 stands for absent).  chain is history: the number of the
\* event the job and its retries belong to.
WebhookJob(event, paymentId, refundId, merchantId) ==
    [event |-> event, paymentId |-> paymentId, refundId |-> refundId,
     merchantId |-> merchantId, attempt |-> 0, delay |-> 0,
     chain |-> Len(webhookJobsAdded) + 1]

\* Fetch refund data and enqueue the webhook for 'refund.processed'; the job
\* completes.
RefundWorkerWebhook ==
    /\ rworker.pc = "webhook"
    /\ LET refund == refunds[rworker.refundId]
           job == WebhookJob("refund.processed", 0, rworker.refundId, refund.merchant_id)
       IN /\ webhookQueue' = Append(webhookQueue, job)
          /\ webhookJobsAdded' = Append(webhookJobsAdded, job)
    /\ rworker' = IdleReq
    /\ UNCHANGED <<now, faults, payments, payApiVars, refundApiVars,
                   refundQueue, redelivered,
                   settleVars, deliveryVars>>

\* A database or queue call of the job rejects: the job fails.
RefundWorkerFail ==
    /\ InFlight(rworker)
    /\ FaultPossible
    /\ faults' = faults + 1
    /\ rworker' = IdleReq
    /\ UNCHANGED <<now, payments, payApiVars, refundApiVars, refundQueue,
                   redelivered, webhookVars,
                   settleVars, deliveryVars>>

\* At-least-once delivery: the queue delivers a job a second time.
RefundRedeliver(i) ==
    /\ redelivered < MaxRedeliver
    /\ i \in 1..Len(refundJobsAdded)
    /\ redelivered' = redelivered + 1
    /\ refundQueue' = Append(refundQueue, refundJobsAdded[i])
    /\ UNCHANGED <<now, faults, payments, payApiVars, refundApiVars, rworker,
                   webhookVars,
                   settleVars, deliveryVars>>

Tick ==
    /\ now < MaxTime
    /\ now' = now + 1
    /\ UNCHANGED <<faults, payments, payApiVars, refundApiVars, refundQueue,
                   refundWorkerVars, webhookVars,
                   settleVars, deliveryVars>>

RefundWorkerSteps ==
    \/ RefundWorkerTake
    \/ RefundWorkerUpdate
    \/ RefundWorkerWebhook
    \/ RefundWorkerFail
    \/ \E i \in 1..Len(refundJobsAdded) : RefundRedeliver(i)

\* Refunds requested through the service with an idempotency key, and the
\* refund worker settling them while time passes.
NextRefundWorker ==
    \/ \E s \in RefReqSlots, k \in RefundKeys :
          RefundRequest(s, "service", 1, 1, k)
    \/ RefundSteps
    \/ RefundWorkerSteps
    \/ Tick

SpecRefundWorker == InitRefund /\ [][NextRefundWorker]_vars

\* ------------------------------------------------------ refund-worker claims
\* C9: the refund worker changes a Refund row only when its status is
\* pending: processing a job for a refund that is already processed, failed or
\* cancelled leaves the row, its status and its processed_at stamp unchanged.
C9_RefundWorkerOnlyPending ==
    [][\A i \in 1..Len(refunds) :
          refunds[i].status # "pending" => refunds'[i] = refunds[i]]_vars

\* =========================================================== payment workers
\* PaymentWorker.js ("basic") and PaymentWorkerEnhanced.js ("enhanced") both
\* consume payment-queue.

\* 3. Determine Outcome
OutcomeStatus(success) == IF success THEN "success" ELSE "failed"

\* Mutant: the UPDATE of the worker also rewrites the amount.
UpdatePaymentStatus_ResetsAmount(status, paymentId) ==
    [i \in 1..Len(payments) |->
        IF i = paymentId
        THEN [payments[i] EXCEPT !.status = status, !.updated_at = now, !.amount = 0]
        ELSE payments[i]]

\* UPDATE payments SET status = $1, updated_at = NOW() WHERE id = $2
UpdatePaymentStatus(status, paymentId) ==
    [i \in 1..Len(payments) |->
        IF i = paymentId
        THEN [payments[i] EXCEPT !.status = status, !.updated_at = now]
        ELSE payments[i]]

\* The queue hands a worker its oldest waiting job; 1. Fetch payment details.
\* Without the row the enhanced worker throws into its catch block and the
\* basic worker's job fails on reading a field of undefined.
PaymentWorkerTake(w) ==
    /\ pworker[w].pc = "idle"
    /\ paymentQueue # <<>>
    /\ LET paymentId == Head(paymentQueue).paymentId
           found == getPaymentById(paymentId)
       IN pworker' = [pworker EXCEPT ![w] =
            IF found = <<>>
            THEN IF w = "enhanced"
                 THEN [pc |-> "catch", paymentId |-> paymentId, merchantId |-> "",
                       status |-> ""]
                 ELSE IdleReq
            ELSE [pc |-> "update", paymentId |-> paymentId,
                  merchantId |-> found[1].merchant_id, status |-> ""]]
    /\ paymentQueue' = Tail(paymentQueue)
    /\ UNCHANGED <<now, faults, payments, idempotency_keys, paymentJobsAdded, preq,
                   refundApiVars, refundQueue, refundWorkerVars, webhookVars,
                   scriptRuns, deliveryVars>>

\* 2. the processing delay has passed; 3. the outcome is determined;
\* 4. Update Database
PaymentWorkerUpdate(w, success) ==
    /\ pworker[w].pc = "update"
    /\ payments' = UpdatePaymentStatus(OutcomeStatus(success), pworker[w].paymentId)
    /\ pworker' = [pworker EXCEPT ![w].pc = "webhook",
                                  ![w].status = OutcomeStatus(success)]
    /\ UNCHANGED <<now, faults, payApiVars, refundApiVars, refundQueue,
                   refundWorkerVars, webhookVars, scriptRuns, deliveryVars>>

\* 5. Enqueue Webhook; the job completes
PaymentWorkerWebhook(w) ==
    /\ pworker[w].pc = "webhook"
    /\ LET job == WebhookJob("payment." \o pworker[w].status, pworker[w].paymentId,
                             0, pworker[w].merchantId)
       IN /\ webhookQueue' = Append(webhookQueue, job)
          /\ webhookJobsAdded' = Append(webhookJobsAdded, job)
    /\ pworker' = [pworker EXCEPT ![w] = IdleReq]
    /\ UNCHANGED <<now, faults, payments, payApiVars, refundApiVars, refundQueue,
                   refundWorkerVars, scriptRuns, deliveryVars>>

\* A database or queue call of the job rejects.  The basic worker's job
\* fails; the enhanced worker enters its catch block, and a rejected UPDATE
\* inside the catch block is logged and the job fails.
PaymentWorkerFail(w) ==
    /\ InFlight(pworker[w])
    /\ FaultPossible
    /\ faults' = faults + 1
    /\ pworker' = [pworker EXCEPT ![w] =
            IF w = "enhanced" /\ pworker[w].pc # "catch"
            THEN [pworker[w] EXCEPT !.pc = "catch"]
            ELSE IdleReq]
    /\ UNCHANGED <<now, payments, payApiVars, refundApiVars, refundQueue,
                   refundWorkerVars, webhookVars, scriptRuns, deliveryVars>>

\* catch (err): UPDATE payments SET status = 'failed'; throw err
PaymentWorkerCatch(w) ==
    /\ pworker[w].pc = "catch"
    /\ payments' = UpdatePaymentStatus("failed", pworker[w].paymentId)
    /\ pworker' = [pworker EXCEPT ![w] = IdleReq]
    /\ UNCHANGED <<now, faults, payApiVars, refundApiVars, refundQueue,
                   refundWorkerVars, webhookVars, scriptRuns, deliveryVars>>

\* At-least-once delivery: the queue delivers a job a second time.
PaymentRedeliver(i) ==
    /\ redelivered < MaxRedeliver
    /\ i \in 1..Len(paymentJobsAdded)
    /\ redelivered' = redelivered + 1
    /\ paymentQueue' = Append(paymentQueue, paymentJobsAdded[i])
    /\ UNCHANGED <<now, faults, payments, idempotency_keys, paymentJobsAdded, preq,
                   refundApiVars, refundQueue, rworker, webhookVars,
                   settleVars, deliveryVars>>

\* The ids of the rows with status 'failed', ORDER BY updated_at ASC
RECURSIVE FailedPaymentJobs(_)
FailedPaymentJobs(ids) ==
    IF ids = {} THEN <<>>
    ELSE LET first == CHOOSE i \in ids : \A j \in ids :
                          \/ payments[i].updated_at < payments[j].updated_at
                          \/ payments[i].updated_at = payments[j].updated_at /\ i <= j
         IN <<[paymentId |-> first]>> \o FailedPaymentJobs(ids \ {first})

\* The script that re-enqueues the payments marked 'failed'.
ReenqueueFailedPayments ==
    /\ scriptRuns < MaxScriptRuns
    /\ LET jobs == FailedPaymentJobs({i \in 1..Len(payments) :
                                          payments[i].status = "failed"})
       IN /\ jobs # <<>>
          /\ paymentQueue' = paymentQueue \o jobs
          /\ paymentJobsAdded' = paymentJobsAdded \o jobs
    /\ scriptRuns' = scriptRuns + 1
    /\ UNCHANGED <<now, faults, payments, idempotency_keys, preq,
                   refundApiVars, refundQueue, refundWorkerVars, webhookVars,
                   pworker, deliveryVars>>

PaymentWorkerSteps ==
    \/ \E w \in PaymentWorkers : PaymentWorkerTake(w)
    \/ \E w \in PaymentWorkers, success \in BOOLEAN : PaymentWorkerUpdate(w, success)
    \/ \E w \in PaymentWorkers : PaymentWorkerWebhook(w)
    \/ \E w \in PaymentWorkers : PaymentWorkerFail(w)
    \/ \E w \in PaymentWorkers : PaymentWorkerCatch(w)
    \/ \E i \in 1..Len(paymentJobsAdded) : PaymentRedeliver(i)
    \/ ReenqueueFailedPayments

\* A payment created by merchant m1 and settled by the two payment workers,
\* its job delivered once or more and re-enqueued by the script.
NextSettle ==
    \/ PayRequest(1, "m1", NoKey, "ord_1", 1, "upi")
    \/ \E s \in PayReqSlots : PayLookup(s)
    \/ \E s \in PayReqSlots : PayInsert(s)
    \/ \E s \in PayReqSlots : PaySaveKey(s)
    \/ \E s \in PayReqSlots : PayEnqueue(s)
    \/ PaymentWorkerSteps
    \/ Tick

SpecSettle == InitPayment /\ [][NextSettle]_vars

\* --------------------------------------------------------- settlement claims
\* C8: once a Payment's status is success or failed it never changes again:
\* processing a job for a Payment that is already terminal, be it a duplicate
\* delivery, a delivery to the other worker or a re-enqueued id, leaves the
\* Payment row unchanged.
C8_PaymentTerminalStable ==
    [][\A i \in 1..Len(payments) :
          payments[i].status \in {"success", "failed"} => payments'[i] = payments[i]]_vars

\* ============================================================ webhook worker
MaxAttempts == 5

\* const delays = WEBHOOK_RETRY_INTERVALS_TEST === 'true' ? [...] : [...]
RetryDelays ==
    IF testIntervals THEN <<0, 5, 10, 15, 20>> ELSE <<0, 60, 300, 1800, 7200>>

\* Mutant: the schedule is indexed one entry too low.
DelaySeconds_OffByOne(attempt) ==
    IF attempt \in 1..Len(RetryDelays) /\ RetryDelays[attempt] # 0
    THEN RetryDelays[attempt]
    ELSE RetryDelays[Len(RetryDelays)]

\* delays[attempt] || delays[delays.length - 1], the array indexed from 0
DelaySeconds(attempt) ==
    IF attempt + 1 \in 1..Len(RetryDelays) /\ RetryDelays[attempt + 1] # 0
    THEN RetryDelays[attempt + 1]
    ELSE RetryDelays[Len(RetryDelays)]

\* Mutant: a fifth failure is retried as well.
RetryAllowed_Inclusive(attempt) == attempt <= MaxAttempts

\* if (attempt < 5)
RetryAllowed(attempt) == attempt < MaxAttempts

\* const { attempt = 1 } = job.data
AttemptOf(job) == IF job.attempt = 0 THEN 1 ELSE job.attempt

\* !merchant?.webhook_url
NoWebhookUrl(merchantId) ==
    \/ merchantId \notin DOMAIN merchants
    \/ merchants[merchantId].webhook_url \in {NullText, ""}

\* { event, timestamp, data: { payment } }; JSON.stringify leaves out a
\* property whose value is undefined
Payload(event, paymentId) ==
    << <<"event", event>>, <<"timestamp", now>>,
       <<"data", IF getPaymentById(paymentId) = <<>> THEN <<>>
                 ELSE << <<"payment", getPaymentById(paymentId)[1]>> >> >> >>

\* crypto.createHmac('sha256', secret).update(body).digest('hex')
HmacSha256(secret, body) == [key |-> secret, message |-> body]

\* Mutant: the signature covers the event name only.
Signature_OverEvent(secret, payload) ==
    HmacSha256(secret, JsonStringify(<<payload[1]>>))

\* createHmac('sha256', merchant.webhook_secret).update(JSON.stringify(payload))
Signature(secret, payload) == HmacSha256(secret, JsonStringify(payload))

RemoveAt(seq, i) == SubSeq(seq, 1, i - 1) \o SubSeq(seq, i + 1, Len(seq))

\* The queue hands the worker a waiting job (delayed jobs wait longer, so any
\* waiting job may be next); the merchant is looked up, and without a
\* webhook_url the job returns at once.
WebhookWorkerTake(i) ==
    /\ wworker.pc = "idle"
    /\ i \in 1..Len(webhookQueue)
    /\ webhookQueue' = RemoveAt(webhookQueue, i)
    /\ wworker' = IF NoWebhookUrl(webhookQueue[i].merchantId) THEN IdleReq
                  ELSE [pc |-> "sign", job |-> webhookQueue[i],
                        attempt |-> AttemptOf(webhookQueue[i]),
                        payload |-> <<>>, signature |-> <<>>, code |-> Null]
    /\ UNCHANGED <<now, faults, payments, payApiVars, refundApiVars, refundQueue,
                   refundWorkerVars, webhookJobsAdded, settleVars, merchants,
                   endpoint, testIntervals, webhook_logs, posts, webhookFailed,
                   wretry>>

\* The payment is looked up, the payload built and signed; createHmac throws
\* on a null secret and the job fails.
WebhookWorkerSign ==
    /\ wworker.pc = "sign"
    /\ LET job == wworker.job
           secret == merchants[job.merchantId].webhook_secret
           payload == Payload(job.event, job.paymentId)
       IN IF secret = NullText
          THEN /\ wworker' = IdleReq
               /\ webhookFailed' = Append(webhookFailed, job)
          ELSE /\ wworker' = [wworker EXCEPT !.pc = "post", !.payload = payload,
                                  !.signature = Signature(secret, payload)]
               /\ UNCHANGED webhookFailed
    /\ UNCHANGED <<now, faults, payments, payApiVars, refundApiVars, refundQueue,
                   refundWorkerVars, webhookVars, settleVars, merchants,
                   endpoint, testIntervals, webhook_logs, posts, wretry>>

\* axios.post with a 5 s timeout: answered 2xx, or failed (non-2xx, timeout,
\* network error).  An endpoint that is "down" fails every time, a "flaky" one
\* answers either way.
WebhookWorkerPost(ok) ==
    /\ wworker.pc = "post"
    /\ endpoint[wworker.job.merchantId] = "down" => ~ok
    /\ posts' = Append(posts,
            [chain |-> wworker.job.chain, attempt |-> wworker.attempt,
             merchantId |-> wworker.job.merchantId,
             body |-> JsonStringify(wworker.payload),
             signature |-> wworker.signature, ok |-> ok])
    /\ wworker' = [wworker EXCEPT
            !.pc = IF ok THEN "logSuccess"
                   ELSE IF RetryAllowed(wworker.attempt) THEN "logPending"
                   ELSE "logFailed",
            !.code = IF ok THEN 200 ELSE 500]
    /\ UNCHANGED <<now, faults, payments, payApiVars, refundApiVars, refundQueue,
                   refundWorkerVars, webhookVars, settleVars, merchants,
                   endpoint, testIntervals, webhook_logs, webhookFailed, wretry>>

\* Mutant: the pending row carries no next scheduled time.
WebhookLogRow_NoSchedule ==
    LET job == wworker.job
        kind == wworker.pc
    IN [id |-> Len(webhook_logs) + 1, chain |-> job.chain,
        merchant_id |-> job.merchantId, event |-> job.event,
        payload |-> JsonbRead(JsonStringify(wworker.payload)),
        status |-> IF kind = "logSuccess" THEN "success"
                   ELSE IF kind = "logPending" THEN "pending" ELSE "failed",
        attempts |-> IF kind = "logPending" THEN wworker.attempt + 1
                     ELSE wworker.attempt,
        next_retry_at |-> Null,
        response_code |-> IF kind = "logFailed" THEN wworker.code ELSE Null,
        last_attempt_at |-> now]

\* The row one INSERT INTO webhook_logs of the worker writes.
WebhookLogRow ==
    LET job == wworker.job
        kind == wworker.pc
    IN [id |-> Len(webhook_logs) + 1, chain |-> job.chain,
        merchant_id |-> job.merchantId, event |-> job.event,
        payload |-> JsonbRead(JsonStringify(wworker.payload)),
        status |-> IF kind = "logSuccess" THEN "success"
                   ELSE IF kind = "logPending" THEN "pending" ELSE "failed",
        attempts |-> IF kind = "logPending" THEN wworker.attempt + 1
                     ELSE wworker.attempt,
        next_retry_at |-> IF kind = "logPending"
                          THEN now + DelaySeconds(wworker.attempt) ELSE Null,
        response_code |-> IF kind = "logFailed" THEN wworker.code ELSE Null,
        last_attempt_at |-> now]

\* Mutant: the job is re-enqueued after every log insert.
AfterLog_AlwaysReenqueue == [wworker EXCEPT !.pc = "reenqueue"]

AfterLog == IF wworker.pc = "logPending"
            THEN [wworker EXCEPT !.pc = "reenqueue"] ELSE IdleReq

\* The attempt is recorded: success, pending with next_retry_at, or failed.
WebhookWorkerLog ==
    /\ wworker.pc \in {"logSuccess", "logPending", "logFailed"}
    /\ webhook_logs' = Append(webhook_logs, WebhookLogRow)
    /\ wworker' = AfterLog
    /\ UNCHANGED <<now, faults, payments, payApiVars, refundApiVars, refundQueue,
                   refundWorkerVars, webhookVars, settleVars, merchants,
                   endpoint, testIntervals, posts, webhookFailed, wretry>>

\* Re-enqueue job with calculated delay: { ...job.data, attempt: attempt + 1 }
WebhookWorkerReenqueue ==
    /\ wworker.pc = "reenqueue"
    /\ LET job == [wworker.job EXCEPT
                      !.attempt = wworker.attempt + 1,
                      !.delay = DelaySeconds(wworker.attempt) * 1000]
       IN /\ webhookQueue' = Append(webhookQueue, job)
          /\ webhookJobsAdded' = Append(webhookJobsAdded, job)
    /\ wworker' = IdleReq
    /\ UNCHANGED <<now, faults, payments, payApiVars, refundApiVars, refundQueue,
                   refundWorkerVars, settleVars, merchants, endpoint,
                   testIntervals, webhook_logs, posts, webhookFailed, wretry>>

\* A database or queue call of the job rejects.  The payment lookup is not
\* guarded, so the job fails; a rejected log insert or re-enqueue is caught
\* and logged, and the handler goes on.
WebhookWorkerFail ==
    /\ wworker.pc \in {"sign", "logSuccess", "logPending", "logFailed", "reenqueue"}
    /\ FaultPossible
    /\ faults' = faults + 1
    /\ wworker' = IF wworker.pc \in {"sign", "reenqueue"} THEN IdleReq ELSE AfterLog
    /\ webhookFailed' = IF wworker.pc = "sign"
                        THEN Append(webhookFailed, wworker.job) ELSE webhookFailed
    /\ UNCHANGED <<now, payments, payApiVars, refundApiVars, refundQueue,
                   refundWorkerVars, webhookVars, settleVars, merchants,
                   endpoint, testIntervals, webhook_logs, posts, wretry>>

\* The webhook jobs the settlement of SettledPayments has enqueued.
SettlementEvents ==
    << [event |-> "payment.success", paymentId |-> 1, refundId |-> 0,
        merchantId |-> "m1", attempt |-> 0, delay |-> 0, chain |-> 1],
       [event |-> "payment.failed", paymentId |-> 2, refundId |-> 0,
        merchantId |-> "m2", attempt |-> 0, delay |-> 0, chain |-> 2] >>

MerchantConfigs ==
    { [webhook_url |-> "http://merchant/webhook", webhook_secret |-> "whsec"],
      [webhook_url |-> "http://merchant/webhook", webhook_secret |-> NullText],
      [webhook_url |-> NullText, webhook_secret |-> NullText] }

InitWebhook ==
    /\ now = 0
    /\ faults = 0
    /\ payments = SettledPayments
    /\ idempotency_keys = {}
    /\ paymentQueue = <<>>
    /\ paymentJobsAdded = <<>>
    /\ preq = <<>>
    /\ refunds = <<>>
    /\ refundQueue = <<>>
    /\ refundJobsAdded = <<>>
    /\ redelivered = 0
    /\ rreq = <<>>
    /\ rworker = IdleReq
    /\ SettlementIdle
    /\ webhookQueue = SettlementEvents
    /\ webhookJobsAdded = SettlementEvents
    /\ merchants \in [Merchants -> MerchantConfigs]
    /\ merchants["m1"].webhook_url # NullText
    /\ merchants["m1"].webhook_secret # NullText
    /\ endpoint \in [Merchants -> {"down", "flaky"}]
    /\ endpoint["m2"] = "down"
    /\ testIntervals \in BOOLEAN
    /\ webhook_logs = <<>>
    /\ wworker = IdleReq
    /\ posts = <<>>
    /\ webhookFailed = <<>>
    /\ wretry = [pc |-> "idle", runs |-> 0]

NextWebhook ==
    \/ \E i \in 1..Len(webhookQueue) : WebhookWorkerTake(i)
    \/ WebhookWorkerSign
    \/ \E ok \in BOOLEAN : WebhookWorkerPost(ok)
    \/ WebhookWorkerLog
    \/ WebhookWorkerReenqueue
    \/ WebhookWorkerFail

SpecWebhook == InitWebhook /\ [][NextWebhook]_vars

\* ------------------------------------------------------------ webhook claims
\* The jobs of one event, in the order they were added to the queue.
ChainJobs(c) == SelectSeq(webhookJobsAdded, LAMBDA job : job.chain = c)

ChainPosts(c) == SelectSeq(posts, LAMBDA post : post.chain = c)

\* The delays of the claim, in seconds.
ClaimedDelays ==
    IF testIntervals THEN <<0, 5, 10, 15, 20>> ELSE <<0, 60, 300, 1800, 7200>>

\* C10: for an endpoint that fails on every attempt the first delivery is
\* enqueued with delay 0 and the retries with delays 60, 300, 1800 and 7200
\* seconds in that order (5, 10, 15, 20 in test mode), and the terminal failed
\* record follows exactly 5 delivery attempts.
C10_BackoffSchedule ==
    \A c \in 1..Len(webhookJobsAdded) :
        (\A i \in 1..Len(ChainPosts(c)) : ~ChainPosts(c)[i].ok) =>
            /\ Len(ChainJobs(c)) <= MaxAttempts
            /\ \A i \in 1..Len(ChainJobs(c)) :
                  /\ AttemptOf(ChainJobs(c)[i]) = i
                  /\ ChainJobs(c)[i].delay = ClaimedDelays[i] * 1000
            /\ Len(ChainPosts(c)) <= MaxAttempts
            /\ \A i \in 1..Len(ChainPosts(c)) : ChainPosts(c)[i].attempt = i
            /\ \A r \in 1..Len(webhook_logs) :
                  (webhook_logs[r].chain = c /\ webhook_logs[r].status = "failed")
                  => Len(ChainPosts(c)) = MaxAttempts

\* An event whose five deliveries all failed and whose failed row is written.
C10_Witness ==
    \E c \in 1..Len(webhookJobsAdded) :
        /\ Len(ChainPosts(c)) = MaxAttempts
        /\ \A i \in 1..Len(ChainPosts(c)) : ~ChainPosts(c)[i].ok
        /\ Len(ChainJobs(c)) = MaxAttempts
        /\ \E r \in 1..Len(webhook_logs) :
              webhook_logs[r].chain = c /\ webhook_logs[r].status = "failed"

ChainRows(c) == SelectSeq(webhook_logs, LAMBDA row : row.chain = c)

\* No job of the event waits in the queue and the worker is not handling one.
ChainOver(c) ==
    /\ \A i \in 1..Len(webhookQueue) : webhookQueue[i].chain # c
    /\ wworker.pc # "idle" => wworker.job.chain # c

ClaimedRowStatuses == <<"pending", "pending", "pending", "pending", "failed">>

\* C11: for one webhook event whose target fails on every attempt (and no
\* database or queue call is rejected) the log holds, once the event is over,
\* exactly 5 rows for it, 4 pending and then 1 failed as the last one, and
\* there is never a 6th delivery attempt or a 6th row.
C11_FiveRowsThenFailed ==
    \A c \in 1..Len(webhookJobsAdded) :
        ( /\ faults = 0
          /\ Len(ChainPosts(c)) >= 1
          /\ \A i \in 1..Len(ChainPosts(c)) : ~ChainPosts(c)[i].ok )
        => /\ Len(ChainPosts(c)) <= 5
           /\ Len(ChainRows(c)) <= 5
           /\ \A i \in 1..Len(ChainRows(c)) :
                 ChainRows(c)[i].status = ClaimedRowStatuses[i]
           /\ ChainOver(c) => Len(ChainPosts(c)) = 5 /\ Len(ChainRows(c)) = 5

\* An event is over after five failed deliveries, its five rows written.
C11_Witness ==
    \E c \in 1..Len(webhookJobsAdded) :
        /\ faults = 0
        /\ ChainOver(c)
        /\ Len(ChainPosts(c)) = 5
        /\ \A i \in 1..Len(ChainPosts(c)) : ~ChainPosts(c)[i].ok
        /\ Len(ChainRows(c)) = 5
        /\ ChainRows(c)[5].status = "failed"

SuccessRows(c) ==
    {i \in 1..Len(ChainRows(c)) : ChainRows(c)[i].status = "success"}

\* C12: a POST answered 2xx is the last delivery attempt of its event: the
\* worker appends exactly one success row for it (when the insert is not
\* rejected) and re-enqueues nothing.
C12_SuccessTerminates ==
    \A c \in 1..Len(webhookJobsAdded) :
        \A i \in 1..Len(ChainPosts(c)) :
            ChainPosts(c)[i].ok =>
                /\ i = Len(ChainPosts(c))
                /\ \A j \in 1..Len(ChainJobs(c)) :
                      AttemptOf(ChainJobs(c)[j]) <= ChainPosts(c)[i].attempt
                /\ Cardinality(SuccessRows(c)) <= 1
                /\ (faults = 0 /\ ChainOver(c)) =>
                      /\ SuccessRows(c) = {Len(ChainRows(c))}
                      /\ ChainRows(c)[Len(ChainRows(c))].attempts
                            = ChainPosts(c)[i].attempt

\* An event delivered at its second attempt is over, its success row written.
C12_Witness ==
    \E c \in 1..Len(webhookJobsAdded) :
        /\ faults = 0
        /\ ChainOver(c)
        /\ Len(ChainPosts(c)) >= 2
        /\ ChainPosts(c)[Len(ChainPosts(c))].ok
        /\ SuccessRows(c) # {}

\* C13: the signature sent with a POST is HMAC-SHA256 of the merchant's
\* webhook_secret over exactly the body transmitted in that request.
C13_SignatureOverTransmittedBody ==
    \A i \in 1..Len(posts) :
        posts[i].signature
            = HmacSha256(merchants[posts[i].merchantId].webhook_secret, posts[i].body)

\* A first delivery and a retry of it have been sent.
C13_Witness ==
    \E i, j \in 1..Len(posts) :
        /\ posts[i].chain = posts[j].chain
        /\ posts[i].attempt = 1
        /\ posts[j].attempt = 2

Unconfigured(m) ==
    \/ NoWebhookUrl(m)
    \/ merchants[m].webhook_secret = NullText

\* C19: a webhook job of a merchant without webhook URL or without shared
\* secret is dropped silently: it completes without error, no request is
\* sent, no row is appended and no job is re-enqueued.
C19_UnconfiguredDroppedSilently ==
    \A m \in Merchants :
        (faults = 0 /\ Unconfigured(m)) =>
            /\ \A i \in 1..Len(posts) : posts[i].merchantId # m
            /\ \A i \in 1..Len(webhook_logs) : webhook_logs[i].merchant_id # m
            /\ \A i \in 1..Len(webhookJobsAdded) :
                  webhookJobsAdded[i].merchantId = m
                  => webhookJobsAdded[i].attempt = 0
            /\ \A i \in 1..Len(webhookFailed) : webhookFailed[i].merchantId # m

\* ====================================================== manual webhook retry
\* POST /api/v1/webhooks/:webhook_id/retry
\* obj[key] of a JSON object, <<>> standing for undefined
Lookup(obj, key) ==
    LET hits == SelectSeq(obj, LAMBDA pair : pair[1] = key)
    IN IF hits = <<>> THEN <<>> ELSE hits[1][2]

\* payload?.data?.payment?.id || null, 0 standing for null
PayloadPaymentId(payload) ==
    IF Lookup(payload, "data") = <<>> THEN 0
    ELSE IF Lookup(Lookup(payload, "data"), "payment") = <<>> THEN 0
    ELSE Lookup(Lookup(payload, "data"), "payment").id

RetryDone(status) == [wretry EXCEPT !.pc = "done", !.status = status]

\* The authenticated merchant asks for the retry of a log entry.
RetryRequest(caller, webhook_id) ==
    /\ wretry.pc \in {"idle", "done"}
    /\ wretry.runs < MaxRetryReq
    /\ wretry' = [pc |-> "select", runs |-> wretry.runs + 1, caller |-> caller,
                  webhook_id |-> webhook_id, w |-> <<>>, status |-> 0,
                  reset |-> FALSE, enqueued |-> <<>>]
    /\ UNCHANGED <<now, faults, payments, payApiVars, refundApiVars, refundQueue,
                   refundWorkerVars, webhookVars, settleVars, merchants,
                   endpoint, testIntervals, webhook_logs, wworker, posts,
                   webhookFailed>>

\* Mutant: the log entry is selected by id alone.
RetryRowOf_AnyTenant(webhook_id, merchantId) ==
    IF webhook_id \in 1..Len(webhook_logs) THEN <<webhook_logs[webhook_id]>> ELSE <<>>

\* SELECT * FROM webhook_logs WHERE id = $1 AND merchant_id = $2
RetryRowOf(webhook_id, merchantId) ==
    IF /\ webhook_id \in 1..Len(webhook_logs)
       /\ webhook_logs[webhook_id].merchant_id = merchantId
    THEN <<webhook_logs[webhook_id]>> ELSE <<>>

\* const w = (await db.query(...)).rows[0]; if (!w) return res.status(404)
RetrySelect ==
    /\ wretry.pc = "select"
    /\ LET rows == RetryRowOf(wretry.webhook_id, wretry.caller)
       IN wretry' = IF rows # <<>>
                    THEN [wretry EXCEPT !.pc = "reset", !.w = rows]
                    ELSE RetryDone(404)
    /\ UNCHANGED <<now, faults, payments, payApiVars, refundApiVars, refundQueue,
                   refundWorkerVars, webhookVars, settleVars, merchants,
                   endpoint, testIntervals, webhook_logs, wworker, posts,
                   webhookFailed>>

\* UPDATE webhook_logs SET status = 'pending', attempts = 0,
\* next_retry_at = NOW(), response_code = NULL, ... WHERE id = $2
RetryReset ==
    /\ wretry.pc = "reset"
    /\ webhook_logs' = [webhook_logs EXCEPT ![wretry.webhook_id] =
            [@ EXCEPT !.status = "pending", !.attempts = 0,
                      !.next_retry_at = now, !.response_code = Null]]
    /\ wretry' = [wretry EXCEPT !.pc = "enqueue", !.reset = TRUE]
    /\ UNCHANGED <<now, faults, payments, payApiVars, refundApiVars, refundQueue,
                   refundWorkerVars, webhookVars, settleVars, merchants,
                   endpoint, testIntervals, wworker, posts, webhookFailed>>

\* The payload of the selected row is parsed and the delivery job added with
\* attempt: 1.  The row's payload comes from a JSONB column, and JSON.parse of
\* it throws before the job is added; the catch block answers 500.
RetryEnqueue ==
    /\ wretry.pc = "enqueue"
    /\ LET w == wretry.w[1]
           job == [event |-> w.event, paymentId |-> PayloadPaymentId(w.payload.value),
                   refundId |-> 0, merchantId |-> w.merchant_id, attempt |-> 1,
                   delay |-> 0, chain |-> Len(webhookJobsAdded) + 1]
       IN IF JsonParseThrows(w.payload)
          THEN /\ wretry' = RetryDone(500)
               /\ UNCHANGED webhookVars
          ELSE /\ webhookQueue' = Append(webhookQueue, job)
               /\ webhookJobsAdded' = Append(webhookJobsAdded, job)
               /\ wretry' = [RetryDone(200) EXCEPT !.enqueued = <<job>>]
    /\ UNCHANGED <<now, faults, payments, payApiVars, refundApiVars, refundQueue,
                   refundWorkerVars, settleVars, merchants, endpoint,
                   testIntervals, webhook_logs, wworker, posts, webhookFailed>>

\* A database call of the request rejects: the catch block answers 500.
RetryFail ==
    /\ wretry.pc \in {"select", "reset"}
    /\ FaultPossible
    /\ faults' = faults + 1
    /\ wretry' = RetryDone(500)
    /\ UNCHANGED <<now, payments, payApiVars, refundApiVars, refundQueue,
                   refundWorkerVars, webhookVars, settleVars, merchants,
                   endpoint, testIntervals, webhook_logs, wworker, posts,
                   webhookFailed>>

\* One payment.success event of merchant m1, whose endpoint is configured.
InitRetry ==
    /\ now = 0
    /\ faults = 0
    /\ payments = SettledPayments
    /\ idempotency_keys = {}
    /\ paymentQueue = <<>>
    /\ paymentJobsAdded = <<>>
    /\ preq = <<>>
    /\ refunds = <<>>
    /\ refundQueue = <<>>
    /\ refundJobsAdded = <<>>
    /\ redelivered = 0
    /\ rreq = <<>>
    /\ rworker = IdleReq
    /\ SettlementIdle
    /\ webhookQueue = <<SettlementEvents[1]>>
    /\ webhookJobsAdded = <<SettlementEvents[1]>>
    /\ merchants \in [Merchants -> MerchantConfigs]
    /\ merchants["m1"].webhook_secret # NullText
    /\ merchants["m2"].webhook_url = NullText
    /\ endpoint \in [Merchants -> {"down", "flaky"}]
    /\ endpoint["m2"] = "down"
    /\ testIntervals = FALSE
    /\ webhook_logs = <<>>
    /\ wworker = IdleReq
    /\ posts = <<>>
    /\ webhookFailed = <<>>
    /\ wretry = [pc |-> "idle", runs |-> 0]

NextRetry ==
    \/ \E i \in 1..Len(webhookQueue) : WebhookWorkerTake(i)
    \/ WebhookWorkerSign
    \/ \E ok \in BOOLEAN : WebhookWorkerPost(ok)
    \/ WebhookWorkerLog
    \/ WebhookWorkerReenqueue
    \/ Tick
    \/ \E caller \in Merchants, id \in 1..(Len(webhook_logs) + 1) :
          RetryRequest(caller, id)
    \/ RetrySelect
    \/ RetryReset
    \/ RetryEnqueue
    \/ RetryFail

SpecRetry == InitRetry /\ [][NextRetry]_vars

\* -------------------------------------------------------------- retry claims
\* C14: webhook_logs is append-only: no operation changes or deletes a field
\* of an existing row; every state change is a new row.
C14_LogAppendOnly ==
    [][\A i \in 1..Len(webhook_logs) :
          /\ i <= Len(webhook_logs')
          /\ webhook_logs'[i] = webhook_logs[i]]_vars

\* C20: the manual retry of an existing row of the calling merchant resets
\* the row (attempts 0, status pending) and enqueues exactly one delivery job
\* for the same event with attempt = 1; it never ends with the row reset and
\* no job enqueued.
C20_RetryResetsAndEnqueues ==
    (wretry.pc = "done" /\ faults = 0 /\ wretry.w # <<>>) =>
        /\ wretry.reset
        /\ webhook_logs[wretry.webhook_id].attempts = 0
        /\ webhook_logs[wretry.webhook_id].status = "pending"
        /\ wretry.enqueued # <<>>
        /\ wretry.enqueued[1].attempt = 1
        /\ wretry.enqueued[1].event = wretry.w[1].event

\* ==================================================== processRefund's checks
\* Direct calls of processRefund, as the service tests make them: the
\* controller's _validateRefundInput would turn an amount <= 0 away before
\* the service is reached.
\* RefundRepository.updateRefundStatus: UPDATE refunds SET status = $1,
\* updated_at = NOW() WHERE id = $2.  It is called here for pending refunds.
UpdateRefundStatus(refundId, status) ==
    /\ refundId \in 1..Len(refunds)
    /\ refunds[refundId].status = "pending"
    /\ refunds' = [refunds EXCEPT ![refundId].status = status,
                                  ![refundId].updated_at = now]
    /\ UNCHANGED <<now, faults, payments, payApiVars, refundJobsAdded, rreq,
                   refundQueue, refundWorkerVars, webhookVars, settleVars,
                   deliveryVars>>

\* Payment 1 is settled, payment 2 failed, payment 3 does not exist.
CheckPaymentIds == {1, 2, 3}

CheckAmounts == {0, 1, RefundPayAmount}

NextRefundChecks ==
    \/ \E s \in RefReqSlots, p \in CheckPaymentIds, a \in CheckAmounts,
          k \in RefundKeys \cup {NoKey} : RefundRequest(s, "service", p, a, k)
    \/ \E s \in RefReqSlots : RefundFindKey(s)
    \/ \E s \in RefReqSlots : RefundGetPayment(s)
    \/ \E s \in RefReqSlots : RefundGetTotal(s)
    \/ \E s \in RefReqSlots : RefundCreate(s)
    \/ \E s \in RefReqSlots : RefundEnqueue(s)
    \/ \E id \in 1..Len(refunds), status \in {"processed", "failed", "cancelled"} :
          UpdateRefundStatus(id, status)

SpecRefundChecks == InitRefund /\ [][NextRefundChecks]_vars

\* ------------------------------------------------------------- check claims
\* The call returned the refund stored under its key.
KeyHit(s) ==
    /\ rreq[s].pc = "done"
    /\ rreq[s].status = 201
    /\ rreq[s].refundId = 0

TotalOutstanding(paymentId) ==
    LET all == SelectSeq(refunds, LAMBDA row : row.payment_id = paymentId)
        dead == SelectSeq(all, LAMBDA row : row.status \in {"failed", "cancelled"})
    IN SumAmounts(all, Len(all)) - SumAmounts(dead, Len(dead))

\* C16: on a success payment, without idempotency hit and without storage or
\* queue failure, processRefund accepts (one pending Refund of the amount, one
\* job) if and only if amount > 0 and amount + totalOutstanding <=
\* payment.amount, totalOutstanding summing exactly the pending and processed
\* refunds of the payment; equality is accepted.
C16_AcceptedIffWithinLimit ==
    [][\A s \in RefReqSlots :
          /\ (rreq[s].pc = "getTotal" /\ rreq'[s].pc # "getTotal") =>
                ( rreq'[s].pc = "create"
                  <=> /\ rreq[s].amount > 0
                      /\ rreq[s].amount + TotalOutstanding(rreq[s].paymentId)
                            <= payments[rreq[s].paymentId].amount )
          /\ ( /\ rreq[s].pc = "create" /\ rreq'[s].pc # "create"
               /\ ~UniqueKeyViolation(rreq[s].key) ) =>
                /\ Len(refunds') = Len(refunds) + 1
                /\ refunds'[Len(refunds')].amount = rreq[s].amount
                /\ refunds'[Len(refunds')].payment_id = rreq[s].paymentId
                /\ refunds'[Len(refunds')].status = "pending"
                /\ rreq'[s].refundId = Len(refunds')
          /\ (rreq[s].pc = "enqueue" /\ rreq'[s].pc # "enqueue") =>
                /\ rreq'[s].status = 201
                /\ refundJobsAdded'
                      = Append(refundJobsAdded, [refundId |-> rreq[s].refundId])
      ]_vars

\* A refund that exhausts the remainder was accepted while a cancelled or
\* failed refund of the payment exists.
C16_Witness ==
    \E s \in RefReqSlots :
        /\ rreq[s].pc = "done" /\ rreq[s].status = 201 /\ rreq[s].refundId # 0
        /\ rreq[s].amount + rreq[s].totalRefunded = rreq[s].payAmount
        /\ \E i \in 1..Len(refunds) :
              /\ refunds[i].payment_id = rreq[s].paymentId
              /\ refunds[i].status \in {"failed", "cancelled"}
              /\ i < rreq[s].refundId

\* C17: a processRefund call that ends with an error leaves no new Refund
\* row and no new refund job of that call behind.
C17_ErrorLeavesNothing ==
    \A s \in RefReqSlots :
        (rreq[s].pc = "done" /\ rreq[s].via = "service" /\ rreq[s].status # 201) =>
            /\ rreq[s].refundId = 0
            /\ \A i \in 1..Len(refundJobsAdded) :
                  refundJobsAdded[i].refundId # rreq[s].refundId

\* ---------------------------------------------- checks after an overshoot
\* Three concurrent calls of processRefund on the settled payment: refunds
\* of all but one unit of the payment's amount, and refunds of amount 0.
OvershootSlots == 1..(MaxRefReq + 1)

InitOvershoot ==
    /\ now = 0
    /\ faults = 0
    /\ payments = SettledPayments
    /\ idempotency_keys = {}
    /\ paymentQueue = <<>>
    /\ paymentJobsAdded = <<>>
    /\ preq = <<>>
    /\ refunds = <<>>
    /\ refundQueue = <<>>
    /\ refundJobsAdded = <<>>
    /\ redelivered = 0
    /\ rreq = [s \in OvershootSlots |-> IdleReq]
    /\ rworker = IdleReq
    /\ webhookQueue = <<>>
    /\ webhookJobsAdded = <<>>
    /\ SettlementIdle
    /\ DeliveryIdle

NextOvershoot ==
    \/ \E s \in OvershootSlots, a \in {0, RefundPayAmount - 1} :
          RefundRequest(s, "service", 1, a, NoKey)
    \/ \E s \in OvershootSlots : RefundFindKey(s)
    \/ \E s \in OvershootSlots : RefundGetPayment(s)
    \/ \E s \in OvershootSlots : RefundGetTotal(s)
    \/ \E s \in OvershootSlots : RefundCreate(s)
    \/ \E s \in OvershootSlots : RefundEnqueue(s)

SpecOvershoot == InitOvershoot /\ [][NextOvershoot]_vars

\* C18: in every reachable state a processRefund call with amount <= 0 on a
\* success payment, without idempotency hit, fails with INVALID_REFUND_AMOUNT
\* and never with REFUND_AMOUNT_EXCEEDS_LIMIT.
C18_NonPositiveIsInvalidAmount ==
    \A s \in OvershootSlots :
        ( /\ rreq[s].pc = "done"
          /\ rreq[s].amount <= 0
          /\ payments[rreq[s].paymentId].status = "success" )
        => /\ rreq[s].status = 400
           /\ rreq[s].code = "INVALID_REFUND_AMOUNT"

\* ================================================== create-payment inputs
\* More than the lifetime of an idempotency record passes.
PastTtl ==
    /\ now <= MaxTime
    /\ now' = now + IdemTtl + 1
    /\ UNCHANGED <<faults, payments, payApiVars, refundApiVars, refundQueue,
                   refundWorkerVars, webhookVars, settleVars, deliveryVars>>

\* req.body.amount and req.body.method as a client may send them
AnyAmounts == {0, 1}

AnyMethods == {"", "upi"}

\* Requests of merchant m1 with any amount and method, with and without
\* key, while idempotency records age.
NextPaymentInputs ==
    \/ \E s \in PayReqSlots, k \in PayKeys, a \in AnyAmounts, md \in AnyMethods :
          PayRequest(s, "m1", k, "ord_1", a, md)
    \/ \E s \in PayReqSlots : PayLookup(s)
    \/ \E s \in PayReqSlots : PayInsert(s)
    \/ \E s \in PayReqSlots : PaySaveKey(s)
    \/ \E s \in PayReqSlots : PayEnqueue(s)
    \/ PastTtl

SpecPaymentInputs == InitPayment /\ [][NextPaymentInputs]_vars

\* C21: an idempotency record is ignored after its expiry time: a request
\* whose key was recorded by the same tenant but has expired is treated as a
\* miss and creates a new Payment row, while a request within the TTL gets
\* the stored response.
C21_ExpiredKeyIsMiss ==
    [][\A s \in PayReqSlots :
          (preq[s].pc = "lookup" /\ preq'[s].pc # "lookup" /\ preq[s].key # NoKey) =>
              LET live == {row \in IdemCached(preq[s].key, preq[s].merchant) :
                              now <= row.expires_at}
              IN IF live = {}
                 THEN preq'[s].pc = "insert"
                 ELSE /\ preq'[s].pc = "done"
                      /\ \E row \in live : preq'[s].body = row.response_body
      ]_vars

\* The request reuses a key recorded for a request with another body.
ReusesKeyOf(t, s) ==
    /\ preq[s].pc = "done" /\ preq[t].pc = "done"
    /\ preq[s].key # NoKey
    /\ preq[s].key = preq[t].key /\ preq[s].merchant = preq[t].merchant
    /\ preq[s].status = 201
    /\ preq[t].paymentId = 0 /\ ~preq[t].faulted
    /\ <<preq[s].order_id, preq[s].amount, preq[s].method>>
          # <<preq[t].order_id, preq[t].amount, preq[t].method>>

\* C22: a request that reuses a recorded key for a different logical request
\* (other order, amount or method) fails with a client (4xx) error; it is
\* answered neither with the earlier request's response nor with a 500.
C22_KeyReuseConflict ==
    \A s, t \in PayReqSlots :
        ReusesKeyOf(t, s) =>
            /\ preq[t].status \in 400..499
            /\ preq[t].body # Jsonb(preq[s].body)

\* C23: a create-payment request without idempotency hit whose amount is not
\* greater than 0 or whose method is empty fails with a validation error and
\* creates no Payment row, no idempotency record and no job; every Payment
\* row has amount > 0.
C23_InvalidInputRejected ==
    /\ \A i \in 1..Len(payments) : payments[i].amount > 0 /\ payments[i].method # ""
    /\ \A s \in PayReqSlots :
          ( /\ preq[s].pc = "done"
            /\ preq[s].amount <= 0 \/ preq[s].method = ""
            /\ preq[s].status # 200 )
          => preq[s].status \in 400..499 /\ preq[s].paymentId = 0

\* The payment a response body names.
BodyPaymentId(body) ==
    LET ids == SelectSeq(body, LAMBDA pair : pair[1] = "id")
    IN IF ids = <<>> THEN 0 ELSE ids[1][2]

\* C24: idempotency keys of payments are scoped per (key, tenant): a request
\* of tenant A with key K is never answered with a response stored by tenant
\* B under K; each tenant gets its own Payment row and job.
C24_KeyScopedPerTenant ==
    /\ \A s \in PayReqSlots :
          ( /\ preq[s].pc = "done" /\ preq[s].key # NoKey
            /\ preq[s].status \in {200, 201} )
          => /\ BodyPaymentId(preq[s].body) \in 1..Len(payments)
             /\ payments[BodyPaymentId(preq[s].body)].merchant_id = preq[s].merchant
    /\ \A s, t \in PayReqSlots :
          ( /\ s # t
            /\ preq[s].pc = "done" /\ preq[t].pc = "done"
            /\ preq[s].key # NoKey /\ preq[s].key = preq[t].key
            /\ preq[s].merchant # preq[t].merchant
            /\ preq[s].status \in {200, 201} /\ preq[t].status \in {200, 201} )
          => /\ BodyPaymentId(preq[s].body) # BodyPaymentId(preq[t].body)
             /\ preq[s].status = 201 =>
                   /\ preq[s].paymentId = BodyPaymentId(preq[s].body)
                   /\ PayJobsFor({preq[s].paymentId}) = 1

\* Two tenants have used the same key, one after the other.
C24_Witness ==
    \E s, t \in PayReqSlots :
        /\ preq[s].pc = "done" /\ preq[t].pc = "done"
        /\ preq[s].key # NoKey /\ preq[s].key = preq[t].key
        /\ preq[s].merchant # preq[t].merchant
        /\ ~preq[t].overlap
        /\ preq[s].status = 201 /\ preq[t].status = 201

\* ========================================================== refund tenants
\* Refund requests of both merchants on the payments of m1 (settled) and of
\* m2 (failed), through the service and through the server's route.
NextRefundTenant ==
    \/ \E s \in RefReqSlots, caller \in Merchants, p \in {1, 2},
          k \in RefundKeys \cup {NoKey} :
          RefundRequestBy(caller, s, "service", p, 1, k)
    \/ \E s \in RefReqSlots, caller \in Merchants, p \in {1, 2} :
          RefundRequestBy(caller, s, "route", p, 1, NoKey)
    \/ \E s \in RefReqSlots : RefundFindKey(s)
    \/ \E s \in RefReqSlots : RefundGetPayment(s)
    \/ \E s \in RefReqSlots : RefundGetTotal(s)
    \/ \E s \in RefReqSlots : RefundCreate(s)
    \/ \E s \in RefReqSlots : RefundEnqueue(s)

SpecRefundTenant == InitRefund /\ [][NextRefundTenant]_vars

\* C25: refund creation is tenant-scoped: a request of tenant A never
\* creates a refund on a payment of tenant B, and an idempotency-key lookup
\* never returns a refund of another tenant or of a payment other than the
\* one the request names.
C25_RefundTenantScoped ==
    \A s \in RefReqSlots :
        /\ (rreq[s].pc # "idle" /\ rreq[s].refundId # 0) =>
              payments[refunds[rreq[s].refundId].payment_id].merchant_id
                  = rreq[s].caller
        /\ KeyHit(s) =>
              /\ rreq[s].returned[1].payment_id = rreq[s].paymentId
              /\ refunds[rreq[s].returned[1].id].merchant_id = rreq[s].caller

\* ===================================================== settlement webhooks
\* C26: every processing of a payment job that completes, a duplicate
\* delivery for an already terminal Payment included, enqueues exactly one
\* webhook job for the payment, named payment.<status> with <status> the
\* Payment's status in the ledger.
C26_WebhookNamesLedgerStatus ==
    [][\A w \in PaymentWorkers :
          (pworker[w].pc = "webhook" /\ pworker'[w].pc = "idle"
              /\ webhookJobsAdded' # webhookJobsAdded) =>
              /\ Len(webhookJobsAdded') = Len(webhookJobsAdded) + 1
              /\ webhookJobsAdded'[Len(webhookJobsAdded')].paymentId
                    = pworker[w].paymentId
              /\ webhookJobsAdded'[Len(webhookJobsAdded')].event
                    = "payment." \o payments[pworker[w].paymentId].status
      ]_vars

\* ------------------------------------------------------ fair settlement
\* The create-payment handler and the payment workers keep running; that a
\* call is rejected, that the queue delivers a job again and that the script
\* is run are not promised.
PayProgress ==
    \E s \in PayReqSlots : PayLookup(s) \/ PayInsert(s) \/ PaySaveKey(s) \/ PayEnqueue(s)

PaymentWorkerProgress ==
    \E w \in PaymentWorkers :
        \/ PaymentWorkerTake(w)
        \/ \E success \in BOOLEAN : PaymentWorkerUpdate(w, success)
        \/ PaymentWorkerWebhook(w)
        \/ PaymentWorkerCatch(w)

NextSettleFair ==
    \/ NextSettle
    \/ \E s \in PayReqSlots : PayFail(s)

SpecSettleFair ==
    /\ InitPayment
    /\ [][NextSettleFair]_vars
    /\ WF_vars(PayProgress)
    /\ WF_vars(PaymentWorkerProgress)

\* C29: every Payment created by create-payment eventually reaches a
\* terminal status under fair scheduling of the workers; none stays pending
\* forever.
C29_PaymentEventuallyTerminal ==
    \A i \in PayReqSlots :
        (Len(payments) >= i)
            ~> (Len(payments) >= i /\ payments[i].status \in {"success", "failed"})

\* C30: every Payment that reaches a terminal status eventually has a
\* webhook job enqueued for it, also when the webhook enqueue was rejected
\* after the status was persisted.
C30_TerminalEventuallyNotified ==
    \A i \in PayReqSlots :
        (Len(payments) >= i /\ payments[i].status \in {"success", "failed"})
            ~> (\E j \in 1..Len(webhookJobsAdded) : webhookJobsAdded[j].paymentId = i)

\* ------------------------------------------------- one row per delivery
\* The worker has posted for event c and has not yet written the row.
LogOutstanding(c) ==
    IF wworker.pc \in {"logSuccess", "logPending", "logFailed"} /\ wworker.job.chain = c
    THEN 1 ELSE 0

\* The worker has written the pending row of event c and not yet re-enqueued.
ReenqueueOutstanding(c) ==
    IF wworker.pc = "reenqueue" /\ wworker.job.chain = c THEN 1 ELSE 0

PendingRows(c) == SelectSeq(ChainRows(c), LAMBDA row : row.status = "pending")

\* C27: (no database or queue call being rejected) a failed delivery with
\* attempt < 5 appends one pending row carrying the next scheduled time and
\* enqueues exactly one job with attempt + 1 and the delay of the schedule
\* entry for that attempt; with attempt >= 5 it appends one failed row and
\* enqueues nothing; every delivery attempt appends exactly one row, so the
\* rows of an event are as many as the delivery attempts made for it.
C27_OneRowPerAttempt ==
    faults = 0 =>
        \A c \in 1..Len(SettlementEvents) :
            LET P == ChainPosts(c)
                R == ChainRows(c)
                J == ChainJobs(c)
            IN /\ Len(R) = Len(P) - LogOutstanding(c)
               /\ Len(J) = 1 + Len(PendingRows(c)) - ReenqueueOutstanding(c)
               /\ \A i \in 1..Len(R) :
                     IF P[i].ok
                     THEN R[i].status = "success"
                     ELSE IF P[i].attempt < 5
                     THEN /\ R[i].status = "pending"
                          /\ R[i].next_retry_at
                                = R[i].last_attempt_at + ClaimedDelays[P[i].attempt + 1]
                          /\ i + 1 <= Len(J) =>
                                /\ J[i + 1].attempt = P[i].attempt + 1
                                /\ J[i + 1].delay
                                      = ClaimedDelays[P[i].attempt + 1] * 1000
                     ELSE /\ R[i].status = "failed"
                          /\ R[i].next_retry_at = Null

\* An event with five delivery attempts: four pending rows, each followed by
\* its job, then the failed row and no sixth job.
C27_Witness ==
    /\ faults = 0
    /\ \E c \in 1..Len(SettlementEvents) :
          /\ Len(ChainPosts(c)) = 5
          /\ Len(ChainRows(c)) = 5
          /\ Len(PendingRows(c)) = 4
          /\ ChainRows(c)[5].status = "failed"
          /\ Len(ChainJobs(c)) = 5
          /\ ChainOver(c)

\* C28: once an event of a merchant with a configured endpoint is over (no
\* job of it queued or being handled), its latest row is success or failed;
\* no event is left with a latest row pending and no job in the queue.
C28_ChainEndsTerminal ==
    \A c \in 1..Len(SettlementEvents) :
        (ChainOver(c) /\ Len(ChainRows(c)) > 0
            /\ ~NoWebhookUrl(SettlementEvents[c].merchantId)) =>
            ChainRows(c)[Len(ChainRows(c))].status \in {"success", "failed"}

\* ======================================================== failed payment job
\* C31: when the processing of a payment job fails with an error, handling
\* the error does not itself change the Payment's status: after the failed
\* job the status is the one the settlement step last persisted, or pending.
C31_ErrorKeepsStatus ==
    [][\A w \in PaymentWorkers :
          (pworker[w].pc = "catch" /\ pworker'[w].pc = "idle") =>
              \A i \in 1..Len(payments) : payments'[i].status = payments[i].status
      ]_vars

\* ============================================================ refund replay
\* C32: a processRefund call that replays a recorded idempotency key returns
\* the stored response verbatim: the refund it returns equals in every field
\* (id, payment_id, amount, status, created_at) the one returned to the
\* original request, also when the refund worker has processed the refund
\* between the two.
C32_ReplayVerbatim ==
    \A s, t \in RefReqSlots :
        (/\ rreq[s].pc = "done" /\ rreq[s].status = 201 /\ rreq[s].refundId # 0
         /\ KeyHit(t) /\ rreq[t].key = rreq[s].key) =>
            rreq[t].returned = rreq[s].returned

\* ============================================================ whole ledger
\* Payments 1 and 2 are settled and the webhook of payment 1 waits for
\* delivery to merchant m1, whose endpoint answers; m2 has no webhook URL.
InitLedger ==
    /\ now = 0
    /\ faults = 0
    /\ payments = SettledPayments
    /\ idempotency_keys = {}
    /\ paymentQueue = <<>>
    /\ paymentJobsAdded = <<>>
    /\ preq = [s \in PayReqSlots |-> IdleReq]
    /\ refunds = <<>>
    /\ refundQueue = <<>>
    /\ refundJobsAdded = <<>>
    /\ redelivered = 0
    /\ rreq = [s \in RefReqSlots |-> IdleReq]
    /\ rworker = IdleReq
    /\ SettlementIdle
    /\ webhookQueue = <<SettlementEvents[1]>>
    /\ webhookJobsAdded = <<SettlementEvents[1]>>
    /\ merchants = [m \in Merchants |->
          IF m = "m1"
          THEN [webhook_url |-> "http://merchant/webhook", webhook_secret |-> "whsec"]
          ELSE [webhook_url |-> NullText, webhook_secret |-> NullText]]
    /\ endpoint = [m \in Merchants |-> IF m = "m1" THEN "flaky" ELSE "down"]
    /\ testIntervals = FALSE
    /\ webhook_logs = <<>>
    /\ wworker = IdleReq
    /\ posts = <<>>
    /\ webhookFailed = <<>>
    /\ wretry = [pc |-> "idle", runs |-> 0]

\* One more payment is created and settled by the payment workers, the
\* settled payment is refunded, the refund worker, the webhook worker and the
\* manual retry run.
NextLedger ==
    \/ PayRequest(1, "m1", NoKey, "ord_2", 1, "upi")
    \/ \E s \in PayReqSlots : PayLookup(s)
    \/ \E s \in PayReqSlots : PayInsert(s)
    \/ \E s \in PayReqSlots : PaySaveKey(s)
    \/ \E s \in PayReqSlots : PayEnqueue(s)
    \/ \E w \in PaymentWorkers : PaymentWorkerTake(w)
    \/ \E w \in PaymentWorkers, success \in BOOLEAN : PaymentWorkerUpdate(w, success)
    \/ \E w \in PaymentWorkers : PaymentWorkerWebhook(w)
    \/ \E w \in PaymentWorkers : PaymentWorkerFail(w)
    \/ \E w \in PaymentWorkers : PaymentWorkerCatch(w)
    \/ RefundRequest(1, "service", 1, 1, "rk1")
    \/ \E s \in RefReqSlots : RefundFindKey(s)
    \/ \E s \in RefReqSlots : RefundGetPayment(s)
    \/ \E s \in RefReqSlots : RefundGetTotal(s)
    \/ \E s \in RefReqSlots : RefundCreate(s)
    \/ \E s \in RefReqSlots : RefundEnqueue(s)
    \/ RefundWorkerTake
    \/ RefundWorkerUpdate
    \/ RefundWorkerWebhook
    \/ \E i \in 1..Len(webhookQueue) : WebhookWorkerTake(i)
    \/ WebhookWorkerSign
    \/ WebhookWorkerPost(TRUE)
    \/ WebhookWorkerLog
    \/ RetryRequest("m1", 1)
    \/ RetrySelect
    \/ RetryReset
    \/ RetryEnqueue

SpecLedger == InitLedger /\ [][NextLedger]_vars

\* C33: a Payment's amount never changes after creation; the only fields of
\* a Payment row any operation changes are its status and its updated
\* timestamp, and only the payment worker writes them; create-refund, the
\* refund worker, the webhook worker and the manual retry leave every Payment
\* row unchanged.
C33_PaymentFrame ==
    [][/\ Len(payments') >= Len(payments)
       /\ \A i \in 1..Len(payments) :
             /\ [payments'[i] EXCEPT !.status = payments[i].status,
                                     !.updated_at = payments[i].updated_at]
                   = payments[i]
             /\ payments'[i] # payments[i] =>
                   \E w \in PaymentWorkers :
                       /\ pworker[w].pc \in {"update", "catch"}
                       /\ pworker[w].paymentId = i
                       /\ pworker'[w] # pworker[w]
      ]_vars

\* The new payment is settled, the first one is refunded and the refund
\* processed, a webhook is logged and a manual retry has been answered.
C33_Witness ==
    /\ Len(payments) = 3
    /\ payments[3].status \in {"success", "failed"}
    /\ payments[3].amount = 1
    /\ Len(refunds) = 1
    /\ refunds[1].status = "processed"
    /\ Len(webhook_logs) > 0
    /\ wretry.pc = "done"

\* ===================================================== retry of a foreign row
\* The request names a log entry that does not exist or is another tenant's.
RetryTargetForeign ==
    \/ wretry.webhook_id \notin 1..Len(webhook_logs)
    \/ webhook_logs[wretry.webhook_id].merchant_id # wretry.caller

JsUndefined == [type |-> "undefined"]
JsNull == [type |-> "null"]
JsString(str) == [type |-> "string", str |-> str]
JsNumber(num) == [type |-> "number", num |-> num]

\* !x
Falsy(x) ==
    \/ x.type \in {"undefined", "null"}
    \/ x.type = "string" /\ x.str = ""
    \/ x.type = "number" /\ x.num = 0

\* String.prototype.trim on the reasons used here
Trim(str) == IF str \in {" ", "  "} THEN "" ELSE str

\* Mutant: the reason is checked before the amount.
ValidateRefundInput_ReasonFirst(paymentId, requestedAmount, reason) ==
    IF Falsy(paymentId) \/ paymentId.type # "string" THEN "INVALID_PAYMENT_ID"
    ELSE IF Falsy(reason) \/ reason.type # "string" \/ Trim(reason.str) = ""
    THEN "MISSING_REASON"
    ELSE IF requestedAmount.type \in {"undefined", "null"} THEN "MISSING_AMOUNT"
    ELSE IF requestedAmount.type # "number" \/ requestedAmount.num <= 0
    THEN "INVALID_AMOUNT"
    ELSE ""

\* _validateRefundInput: the code of the validation error thrown, "" if none
ValidateRefundInput(paymentId, requestedAmount, reason) ==
    IF Falsy(paymentId) \/ paymentId.type # "string" THEN "INVALID_PAYMENT_ID"
    ELSE IF requestedAmount.type \in {"undefined", "null"} THEN "MISSING_AMOUNT"
    ELSE IF requestedAmount.type # "number" \/ requestedAmount.num <= 0
    THEN "INVALID_AMOUNT"
    ELSE IF Falsy(reason) \/ reason.type # "string" \/ Trim(reason.str) = ""
    THEN "MISSING_REASON"
    ELSE ""

\* The payment row a payment id names; pay_3 names none.
PaymentNamed(str) == IF str = "pay_1" THEN 1 ELSE IF str = "pay_2" THEN 2 ELSE 3

\* processRefund(..., idempotencyKey = null); if (idempotencyKey)
ServiceKey(idempotencyKey) == IF Falsy(idempotencyKey) THEN NoKey ELSE idempotencyKey.str

\* RefundController.createRefund: the input is validated; a validation error
\* is answered through _handleError with its statusCode 400 and its code;
\* otherwise processRefund is called with the four values.
CreateRefund(s, paymentId, requestedAmount, reason, idempotencyKey) ==
    /\ rreq[s].pc = "idle"
    /\ \A t \in RefReqSlots : t < s => rreq[t].pc # "idle"
    /\ LET code == ValidateRefundInput(paymentId, requestedAmount, reason)
           input == <<paymentId, requestedAmount, reason, idempotencyKey>>
       IN rreq' = [rreq EXCEPT ![s] =
            IF code # ""
            THEN [pc |-> "done", via |-> "service", input |-> input, calls |-> <<>>,
                  key |-> NoKey, faulted |-> FALSE, refundId |-> 0,
                  returned |-> <<>>, status |-> 400, code |-> code]
            ELSE [pc |-> "findKey", via |-> "service", input |-> input,
                  calls |-> <<input>>,
                  paymentId |-> PaymentNamed(paymentId.str), amount |-> requestedAmount.num,
                  key |-> ServiceKey(idempotencyKey), caller |-> "m1",
                  concurrent |-> \E t \in RefReqSlots : InFlight(rreq[t]),
                  overlap |-> FALSE, faulted |-> FALSE, totalRefunded |-> 0,
                  payAmount |-> 0, merchant |-> "", refundId |-> 0,
                  returned |-> <<>>, status |-> 0, code |-> ""]]
    /\ UNCHANGED <<now, faults, payments, payApiVars, refunds, refundJobsAdded,
                   refundQueue, refundWorkerVars, webhookVars,
                   settleVars, deliveryVars>>

\* res.status(201).json({ id, payment_id, amount, status, created_at })
CreatedBody(refund) ==
    [id |-> refund.id, payment_id |-> refund.payment_id, amount |-> refund.amount,
     status |-> refund.status, created_at |-> refund.created_at]

PaymentIdInputs == {JsUndefined, JsNumber(1), JsString(""), JsString("pay_1"), JsString("pay_3")}

AmountInputs == {JsUndefined, JsNull, JsString("1"), JsNumber(0), JsNumber(-1), JsNumber(1)}

ReasonInputs == {JsUndefined, JsNumber(1), JsString(""), JsString(" "), JsString("requested")}

KeyInputs == {JsUndefined, JsString("rk1")}

\* One request to the controller on the settled ledger.
NextController ==
    \/ \E p \in PaymentIdInputs, a \in AmountInputs, r \in ReasonInputs,
          k \in KeyInputs : CreateRefund(1, p, a, r, k)
    \/ RefundSteps

SpecController == InitRefund /\ [][NextController]_vars

\* The code the claim gives for an input, "" for a valid one.
ClaimedCode(input) ==
    LET paymentId == input[1]
        amount == input[2]
        reason == input[3]
    IN IF paymentId.type # "string" \/ paymentId.str = "" THEN "INVALID_PAYMENT_ID"
       ELSE IF amount.type \in {"undefined", "null"} THEN "MISSING_AMOUNT"
       ELSE IF amount.type # "number" \/ ~(amount.num > 0) THEN "INVALID_AMOUNT"
       ELSE IF reason.type # "string" \/ reason.str \in {"", " "} THEN "MISSING_REASON"
       ELSE ""

\* C35: createRefund rejects a missing or non-string payment id, a missing
\* amount, a non-numeric or non-positive amount, a missing or blank reason
\* with 400 and INVALID_PAYMENT_ID, MISSING_AMOUNT, INVALID_AMOUNT,
\* MISSING_REASON (first failing check in that order) without calling
\* processRefund; for a valid request it calls processRefund exactly once with
\* (paymentId, amount, reason, idempotencyKey) and on success answers 201 with
\* exactly the fields id, payment_id, amount, status, created_at.
C35_ControllerValidation ==
    \A s \in RefReqSlots :
        rreq[s].pc # "idle" =>
            LET r == rreq[s]
            IN IF ClaimedCode(r.input) # ""
               THEN /\ r.pc = "done"
                    /\ r.status = 400
                    /\ r.code = ClaimedCode(r.input)
                    /\ r.calls = <<>>
               ELSE /\ r.calls = <<r.input>>
                    /\ (r.pc = "done" /\ r.status = 201) =>
                          /\ DOMAIN CreatedBody(r.returned[1])
                                = {"id", "payment_id", "amount", "status", "created_at"}
                          /\ CreatedBody(r.returned[1]) = RefundView(refunds[r.refundId])

\* A request with a valid payment id, no amount and no reason was turned away
\* for the amount.
C35_Witness ==
    \E s \in RefReqSlots :
        /\ rreq[s].pc = "done"
        /\ rreq[s].status = 400
        /\ rreq[s].code = "MISSING_AMOUNT"
        /\ rreq[s].input[3] = JsUndefined
        /\ rreq[s].calls = <<>>

\* ========================================================== error responses
ObjectKeys(obj) == {obj[i][1] : i \in 1..Len(obj)}

\* C36: every error of a create-payment request is answered with a body
\* {error: {code, description}}, and an unexpected internal error with status
\* 500, code INTERNAL_SERVER_ERROR and a generic description that does not
\* contain the text of the internal error.
C36_StructuredErrors ==
    \A s \in PayReqSlots :
        (preq[s].pc = "done" /\ preq[s].status >= 400) =>
            LET body == preq[s].body
                error == Lookup(body, "error")
            IN /\ ObjectKeys(body) = {"error"}
               /\ error \notin STRING
               /\ ObjectKeys(error) = {"code", "description"}
               /\ preq[s].status = 500 =>
                     /\ Lookup(error, "code") = "INTERNAL_SERVER_ERROR"
                     /\ Lookup(error, "description") # InternalErrorText

\* ======================================================= row without a job
\* C37: after a create-payment request has finished, with success or with an
\* error, the Payment row it inserted has had exactly one payment-processing
\* job enqueued for it, also when the idempotency insert or the enqueue fails
\* and the client retries with the same key.
C37_InsertedRowHasJob ==
    \A s \in PayReqSlots :
        (preq[s].pc = "done" /\ preq[s].paymentId # 0) =>
            PayJobsFor({preq[s].paymentId}) = 1

\* ===================================================== what a webhook says
\* The same, the queue delivering a payment job once or more and the refund
\* being one of the new payment as well.
NextNotify ==
    \/ NextLedger
    \/ \E i \in 1..Len(paymentJobsAdded) : PaymentRedeliver(i)
    \/ RefundRequest(1, "service", 3, 1, "rk1")

SpecNotify == InitLedger /\ [][NextNotify]_vars

\* C38: in every webhook POSTed for a payment event the status in the event
\* name agrees with the payment carried in the payload, for every
\* interleaving of payment-job deliveries and webhook deliveries.
C38_EventMatchesPayload ==
    \A i \in 1..Len(posts) :
        LET body == posts[i].body.value
            event == Lookup(body, "event")
            data == Lookup(body, "data")
        IN (event \in {"payment.success", "payment.failed"} /\ data # <<>>) =>
              event = "payment." \o Lookup(data, "payment").status

\* C40: every webhook POSTed for a refund.processed event identifies the
\* refund: the data of its payload is never an empty object.
C40_RefundWebhookNamesRefund ==
    \A i \in 1..Len(posts) :
        LET body == posts[i].body.value
        IN Lookup(body, "event") = "refund.processed" =>
              Lookup(body, "data") # <<>>

\* C39: in every reachable state every Refund row with status pending or
\* processed references a Payment that exists and whose status is success.
C39_RefundOfSuccessPayment ==
    \A i \in 1..Len(refunds) :
        refunds[i].status \in {"pending", "processed"} =>
            /\ refunds[i].payment_id \in 1..Len(payments)
            /\ payments[refunds[i].payment_id].status = "success"
====
